---- MODULE Spec2Model ----
(***************************************************************************)
(* Model of the reservation orchestrator of 7ma-web.                       *)
(*                                                                         *)
(*   - ReservationTask.run (app/background.py): one hold loop, stepped at  *)
(*     its await points (specification SpecLoop).                          *)
(*   - task_manager with the create / stop routes (app/routers/tasks.py)   *)
(*     and PeriodicTaskManager._execute_task (app/scheduler.py), stepped   *)
(*     at their await points (specification SpecReg).                      *)
(*   - the routes of app/routers/tasks.py with their answers              *)
(*     (specification SpecTasks).                                          *)
(*   - PeriodicTaskManager's store: add_task, update_task, remove_task,    *)
(*     the file and the jobs, and a restart (specification SpecStore).     *)
(*                                                                         *)
(* The program runs on one asyncio event loop: code between two awaits is  *)
(* one atomic step, and another coroutine can run only at an await.  Each  *)
(* action below is the code from one await to the next.                    *)
(***************************************************************************)
EXTENDS Integers, Sequences, FiniteSets, TLC

VARIABLES
    \* ---- one ReservationTask, stepped at its awaits (SpecLoop) ----
    max_loops,          \* self.max_loops
    current_loop,       \* self.current_loop
    status,             \* self.status
    stop_event,         \* self._stop_event.is_set()
    pc,                 \* the await run() is suspended at
    hold_i,             \* i of `for i in range(wait_seconds, 0, -1)`
    retry_i,            \* i of `for i in range(max_retries)`
    backoff_i,          \* time units left of the asyncio.sleep(60) or
                        \* asyncio.sleep(15) in progress
    return_successful,  \* local return_successful
    client,             \* the SevenPaceAsyncClient session of run()
    \* observations of the run so far (no code reads them)
    order_calls,        \* order_car calls issued
    back_calls,         \* back_car calls issued
    hold_sleeps,        \* asyncio.sleep(1) calls of the hold window that returned
    seen,               \* what has happened to the run so far (set of tags)
    \* ---- registry and scheduler (SpecReg) ----
    task_manager,       \* background.task_manager: user_id -> list of tasks
    tasks,              \* PeriodicTaskManager.tasks: the stored scan definitions
    creates,            \* POST /api/tasks requests in flight or answered
    execs,              \* _execute_task runs in flight, one slot per definition
    \* ---- the definition store and its triggers (SpecStore) ----
    file,               \* contents of TASKS_FILE
    jobs,               \* jobs of self.scheduler: the armed triggers
    scheduler,          \* whether start() got as far as self.scheduler.start()
    next_id,            \* how many uuid4 ids add_task has drawn
    firing,             \* ids of the _execute_task runs in flight
    last_call,          \* the last operation on the store and its result
    \* ---- one SevenPaceAsyncClient (SpecHttp) ----
    headers,            \* self.headers.get("authorization", "")
    expired_at,         \* self.expired_at
    http_call,          \* the last set_token or _request call and its outcome
    \* ---- one SevenMateSocketClient (SpecSocket) ----
    socket_key,         \* self.socket_key, as the characters of the string
    websocket,          \* self.websocket: "None", or the state of the connection
    msg_id_counter,     \* self.msg_id_counter
    ws_pc,              \* the await connect() is suspended at
    frames,             \* the packets _create_packet has returned, in order
    conn_start,         \* how many of them were created before the connection
                        \* self.websocket now is was opened
    ws_call,            \* the last call on the socket client and its outcome
    slept,              \* tenths of a second of the wrapper's asyncio.sleep(0.2)
                        \* that have passed since connect() returned
    server_auth         \* what the server has done with the authenticate frame
                        \* of the connection: "none", "received" or "done"

loopVars == <<max_loops, current_loop, status, stop_event, pc, hold_i, retry_i,
              backoff_i, return_successful, client, order_calls, back_calls, hold_sleeps, seen>>
regVars == <<task_manager, tasks, creates, execs>>
storeVars == <<file, jobs, scheduler, next_id, firing, last_call>>
httpVars == <<headers, expired_at, http_call>>
socketVars == <<socket_key, websocket, msg_id_counter, ws_pc, frames, conn_start, ws_call,
                slept, server_auth>>
sdkVars == <<httpVars, socketVars>>
vars == <<loopVars, regVars, storeVars, sdkVars>>

-----------------------------------------------------------------------------
(* Bounds of the exploration *)

\* the largest cap a single explored loop is created with
MaxCap == 2

\* caps a loop is created with: max_loops is an unvalidated int
\* (models.py PeriodicTaskCreate.max_loops), so zero and negatives are included
Caps == (0 - 1) .. MaxCap

-----------------------------------------------------------------------------
(* ReservationTask.run, app/background.py *)

\* wait_seconds = 24 * 60
wait_seconds == 24 * 60

\* max_retries = 12
max_retries == 12

\* the time units of `await asyncio.sleep(60)` after a failed order_car
backoff_seconds == 60

\* the wait after a failed return attempt, asyncio.sleep(15) (line 73)
retry_wait_seconds == 15

\* the awaits at which run() can be suspended inside the try body
LoopAwaits == {"order_car", "hold", "back_car", "settle", "retry_wait", "backoff"}

\* a token jwt.decode accepts, and one it raises DecodeError on
Tokens == {"decodable", "malformed"}

\* the remote's answers to one call: success, APIError, any other exception
CallResults == {"ok", "APIError", "Exception"}

\* a faulty variant of LoopCondition that does not look at the flag
LoopConditionNoFlag == current_loop < max_loops

\* a faulty variant of LoopCondition that admits one pass beyond the cap
LoopConditionOffByOne == current_loop <= max_loops /\ ~stop_event

\* `while self.current_loop < self.max_loops and not self._stop_event.is_set()`
LoopCondition == current_loop < max_loops /\ ~stop_event

\* lines 91-98, reached by every `break` and by the loop condition failing:
\* completed when the counter has reached the cap, stopped otherwise; then the
\* finally block awaits client.close()
ExitWhile ==
    /\ status' = (IF current_loop >= max_loops THEN "completed" ELSE "stopped")
    /\ pc' = "close"
    /\ UNCHANGED <<current_loop, order_calls>>

\* the head of the while loop: either one more pass begins (counter
\* incremented, order_car awaited) or the loop is left
WhileHead ==
    IF LoopCondition
    THEN /\ current_loop' = current_loop + 1
         /\ order_calls' = order_calls + 1
         /\ status' = "running"
         /\ pc' = "order_car"
    ELSE ExitWhile

\* a faulty variant of AfterReturnLoop that goes on to the next pass even
\* when no return attempt succeeded
AfterReturnLoopContinue(ok) == WhileHead

\* lines 75-78 and the end of the try body: without a successful return the
\* whole loop is left, with one the next pass is tried
AfterReturnLoop(ok) == IF ok THEN WhileHead ELSE ExitWhile

\* a faulty variant of ReturnAttempt that issues the return call without
\* looking at the flag
ReturnAttemptUnchecked(k) ==
    IF k < max_retries
    THEN /\ retry_i' = k
         /\ back_calls' = back_calls + 1
         /\ pc' = "back_car"
         /\ UNCHANGED <<status, current_loop, order_calls, seen>>
    ELSE /\ retry_i' = k
         /\ seen' = (IF k = max_retries THEN seen \cup {"all_returns_failed"} ELSE seen)
         /\ AfterReturnLoop(FALSE)
         /\ UNCHANGED back_calls

\* the head of `for i in range(max_retries)` for i = k: the flag is checked,
\* then back_car is awaited; when the range is used up or the flag is set the
\* for loop ends with return_successful still False
ReturnAttempt(k) ==
    IF k < max_retries /\ ~stop_event
    THEN /\ retry_i' = k
         /\ back_calls' = back_calls + 1
         /\ pc' = "back_car"
         /\ UNCHANGED <<status, current_loop, order_calls, seen>>
    ELSE /\ retry_i' = k
         /\ seen' = (IF k = max_retries THEN seen \cup {"all_returns_failed"} ELSE seen)
         /\ AfterReturnLoop(FALSE)
         /\ UNCHANGED back_calls

\* a faulty variant of HoldRange that holds one second less
HoldRangeShort(i) == i >= 2 /\ i <= wait_seconds

\* the values of i for which the hold loop body runs: range(wait_seconds, 0, -1)
HoldRange(i) == i >= 1 /\ i <= wait_seconds

\* a faulty variant of HoldHead that sleeps through the window without
\* looking at the flag
HoldHeadUnchecked(k) ==
    IF HoldRange(k)
    THEN /\ hold_i' = k
         /\ pc' = "hold"
         /\ UNCHANGED <<status, current_loop, order_calls, retry_i, back_calls, seen>>
    ELSE IF stop_event
    THEN /\ hold_i' = k
         /\ ExitWhile
         /\ UNCHANGED <<retry_i, back_calls, seen>>
    ELSE /\ hold_i' = k
         /\ ReturnAttempt(0)

\* the hold loop for i = k (lines 42-54): inside the range the flag is
\* checked and asyncio.sleep(1) awaited; a set flag breaks out and then leaves
\* the while loop (line 53); past the range the return attempts begin
HoldHead(k) ==
    IF HoldRange(k) /\ ~stop_event
    THEN /\ hold_i' = k
         /\ pc' = "hold"
         /\ UNCHANGED <<status, current_loop, order_calls, retry_i, back_calls, seen>>
    ELSE IF stop_event
    THEN /\ hold_i' = k
         /\ ExitWhile
         /\ UNCHANGED <<retry_i, back_calls, seen>>
    ELSE /\ hold_i' = k
         /\ ReturnAttempt(0)

\* run() starts (lines 21-29): status running, the client session is opened
\* and the token set; set_token raises AuthenticationError on a token it
\* cannot decode (sdk lines 274-286), outside the try block, so run() then
\* ends there with the status left as it is; otherwise the loop head follows
LoopStart(token) ==
    /\ pc = "pending"
    /\ client' = "open"
    /\ IF token = "decodable"
       THEN /\ WhileHead
            /\ UNCHANGED seen
       ELSE /\ status' = "running"
            /\ pc' = "raised"
            /\ seen' = seen \cup {"token_rejected"}
            /\ UNCHANGED <<current_loop, order_calls>>
    /\ UNCHANGED <<backoff_i, max_loops, stop_event, hold_i, retry_i, return_successful,
                   back_calls, hold_sleeps>>

\* `await client.order_car(...)` returns or raises (lines 36, 80-89)
OrderReturns(r) ==
    /\ pc = "order_car"
    /\ return_successful' = (IF r = "ok" THEN FALSE ELSE return_successful)
    /\ CASE r = "ok" ->
              HoldHead(wait_seconds)
         [] r = "APIError" ->
              /\ pc' = "backoff"
              /\ seen' = seen \cup {"order_failed"}
              /\ UNCHANGED <<status, current_loop, order_calls, hold_i, retry_i, back_calls>>
         [] r = "Exception" ->
              /\ ExitWhile
              /\ seen' = seen \cup {"order_raised"}
              /\ UNCHANGED <<hold_i, retry_i, back_calls>>
    /\ backoff_i' = (IF r = "APIError" THEN backoff_seconds ELSE backoff_i)
    /\ UNCHANGED <<max_loops, stop_event, client, hold_sleeps>>

\* one time unit of the asyncio.sleep(60) passes and more are left: run()
\* stays suspended, nothing of the task is read or written
BackoffTick ==
    /\ pc = "backoff"
    /\ backoff_i > 1
    /\ backoff_i' = backoff_i - 1
    /\ UNCHANGED <<max_loops, current_loop, status, stop_event, pc, hold_i, retry_i,
                   return_successful, client, order_calls, back_calls, hold_sleeps,
                   seen>>

\* the last time unit passes and `await asyncio.sleep(60)` of the except
\* APIError handler returns: continue
BackoffDone ==
    /\ pc = "backoff"
    /\ backoff_i = 1
    /\ backoff_i' = 0
    /\ WhileHead
    /\ UNCHANGED <<max_loops, stop_event, hold_i, retry_i, return_successful,
                   client, back_calls, hold_sleeps, seen>>

\* a faulty variant of HoldTick that counts two units of the window for one
\* sleep
HoldTickByTwo ==
    /\ pc = "hold"
    /\ hold_sleeps' = hold_sleeps + 1
    /\ HoldHead(hold_i - 2)
    /\ UNCHANGED <<backoff_i, max_loops, stop_event, return_successful, client>>

\* `await asyncio.sleep(1)` of the hold window returns: next i
HoldTick ==
    /\ pc = "hold"
    /\ hold_sleeps' = hold_sleeps + 1
    /\ HoldHead(hold_i - 1)
    /\ UNCHANGED <<backoff_i, max_loops, stop_event, return_successful, client>>

\* `await client.back_car()` returns or raises (lines 62-73, 86-89)
BackReturns(r) ==
    /\ pc = "back_car"
    /\ CASE r = "ok" ->
              /\ return_successful' = TRUE
              /\ pc' = "settle"
              /\ UNCHANGED <<status, current_loop, order_calls, seen>>
         [] r = "APIError" ->
              /\ pc' = "retry_wait"
              /\ seen' = seen \cup {"return_failed"}
              /\ UNCHANGED <<status, current_loop, order_calls, return_successful>>
         [] r = "Exception" ->
              /\ ExitWhile
              /\ seen' = seen \cup {"return_raised"}
              /\ UNCHANGED return_successful
    /\ backoff_i' = (IF r = "APIError" THEN retry_wait_seconds ELSE backoff_i)
    /\ UNCHANGED <<max_loops, stop_event, hold_i, retry_i, client, back_calls, hold_sleeps>>

\* one time unit of the asyncio.sleep(15) passes and more are left: run()
\* stays suspended
RetryWaitTick ==
    /\ pc = "retry_wait"
    /\ backoff_i > 1
    /\ backoff_i' = backoff_i - 1
    /\ UNCHANGED <<max_loops, current_loop, status, stop_event, pc, hold_i, retry_i,
                   return_successful, client, order_calls, back_calls, hold_sleeps,
                   seen>>

\* the last time unit passes and `await asyncio.sleep(15)` after a failed
\* return returns: next attempt
RetryWaitDone ==
    /\ pc = "retry_wait"
    /\ backoff_i = 1
    /\ backoff_i' = 0
    /\ ReturnAttempt(retry_i + 1)
    /\ UNCHANGED <<max_loops, stop_event, hold_i, return_successful, client, hold_sleeps>>

\* `await asyncio.sleep(5)` after a successful return returns: break, next pass
SettleDone ==
    /\ pc = "settle"
    /\ AfterReturnLoop(return_successful)
    /\ UNCHANGED <<backoff_i, max_loops, stop_event, hold_i, retry_i, return_successful,
                   client, back_calls, hold_sleeps, seen>>

\* the event loop is shut down while run() is suspended: CancelledError is
\* raised at the await; no except clause of run() catches it (it is no
\* Exception), so only the finally block runs
Cancelled ==
    /\ pc \in LoopAwaits
    /\ pc' = "close"
    /\ seen' = seen \cup {"cancelled"}
    /\ UNCHANGED <<backoff_i, max_loops, current_loop, status, stop_event, hold_i, retry_i,
                   return_successful, client, order_calls, back_calls, hold_sleeps>>

\* a faulty variant of CloseDone whose finally block sets failed whatever the
\* status is
CloseDoneAlwaysFailed ==
    /\ pc = "close"
    /\ client' = "closed"
    /\ status' = "failed"
    /\ pc' = "done"
    /\ UNCHANGED <<backoff_i, max_loops, current_loop, stop_event, hold_i, retry_i,
                   return_successful, order_calls, back_calls, hold_sleeps, seen>>

\* `await client.close()` returns, rest of the finally block (lines 101-104)
CloseDone ==
    /\ pc = "close"
    /\ client' = "closed"
    /\ status' = (IF status \notin {"completed", "stopped"} THEN "failed" ELSE status)
    /\ pc' = "done"
    /\ UNCHANGED <<backoff_i, max_loops, current_loop, stop_event, hold_i, retry_i,
                   return_successful, order_calls, back_calls, hold_sleeps, seen>>

\* ReservationTask.stop(), called by the stop route on a task it finds
\* pending or running (routers/tasks.py lines 69-78)
Stop ==
    /\ status \in {"pending", "running"}
    /\ pc # "none"
    /\ stop_event' = TRUE
    /\ seen' = seen \cup {IF status = "running" THEN "stop_running" ELSE "stop_pending"}
    /\ UNCHANGED <<backoff_i, max_loops, current_loop, status, pc, hold_i, retry_i,
                   return_successful, client, order_calls, back_calls, hold_sleeps>>

\* ReservationTask.__init__ followed by asyncio.create_task(run())
LoopInit ==
    /\ max_loops \in Caps
    /\ current_loop = 0
    /\ status = "pending"
    /\ stop_event = FALSE
    /\ pc = "pending"
    /\ hold_i = 0
    /\ retry_i = 0
    /\ backoff_i = 0
    /\ return_successful = FALSE
    /\ client = "none"
    /\ order_calls = 0
    /\ back_calls = 0
    /\ hold_sleeps = 0
    /\ seen = {}

\* no stepped loop (the registry specification keeps its tasks in task_manager)
LoopNone ==
    /\ max_loops = 0
    /\ current_loop = 0
    /\ status = "pending"
    /\ stop_event = FALSE
    /\ pc = "none"
    /\ hold_i = 0
    /\ retry_i = 0
    /\ backoff_i = 0
    /\ return_successful = FALSE
    /\ client = "none"
    /\ order_calls = 0
    /\ back_calls = 0
    /\ hold_sleeps = 0
    /\ seen = {}

RegNone ==
    /\ task_manager = <<>>
    /\ tasks = <<>>
    /\ creates = <<>>
    /\ execs = <<>>

\* TASKS_FILE before the first save: open() raises FileNotFoundError
NoFile == [exists |-> FALSE, text |-> <<>>]

\* the store's file, jobs and calls are not followed
StoreNone ==
    /\ file = NoFile
    /\ jobs = {}
    /\ scheduler = "running"
    /\ next_id = 0
    /\ firing = {}
    /\ last_call = <<>>

\* SevenPaceAsyncClient() as the program builds it, without authorization and
\* expiry (sdk lines 248-272); no call is followed
HttpNone ==
    /\ headers = ""
    /\ expired_at = ""
    /\ http_call = [op |-> "none"]

\* no call on a socket client yet
NoWsCall ==
    [op |-> "none", outcome |-> "none", action_id |-> 0,
     data_payload |-> [t |-> "nil", chars |-> <<>>, n |-> 0, items |-> <<>>],
     packet |-> <<>>, code |-> <<>>]

\* no socket client is followed
SocketNone ==
    /\ socket_key = <<>>
    /\ websocket = "None"
    /\ msg_id_counter = 1
    /\ ws_pc = "idle"
    /\ frames = <<>>
    /\ conn_start = 0
    /\ ws_call = NoWsCall
    /\ slept = 0
    /\ server_auth = "none"

InitLoop == LoopInit /\ RegNone /\ StoreNone /\ HttpNone /\ SocketNone

NextLoop ==
    \/ (\E token \in Tokens : LoopStart(token)) /\ UNCHANGED <<regVars, storeVars, sdkVars>>
    \/ (\E r \in CallResults : OrderReturns(r)) /\ UNCHANGED <<regVars, storeVars, sdkVars>>
    \/ BackoffTick /\ UNCHANGED <<regVars, storeVars, sdkVars>>
    \/ BackoffDone /\ UNCHANGED <<regVars, storeVars, sdkVars>>
    \/ HoldTick /\ UNCHANGED <<regVars, storeVars, sdkVars>>
    \/ (\E r \in CallResults : BackReturns(r)) /\ UNCHANGED <<regVars, storeVars, sdkVars>>
    \/ RetryWaitTick /\ UNCHANGED <<regVars, storeVars, sdkVars>>
    \/ RetryWaitDone /\ UNCHANGED <<regVars, storeVars, sdkVars>>
    \/ SettleDone /\ UNCHANGED <<regVars, storeVars, sdkVars>>
    \/ Cancelled /\ UNCHANGED <<regVars, storeVars, sdkVars>>
    \/ CloseDone /\ UNCHANGED <<regVars, storeVars, sdkVars>>
    \/ Stop /\ UNCHANGED <<regVars, storeVars, sdkVars>>

SpecLoop == InitLoop /\ [][NextLoop]_vars

\* the steps of run() itself: the event loop resumes the coroutine whenever
\* the call or the sleep it awaits is over
LoopRuns ==
    /\ \/ \E token \in Tokens : LoopStart(token)
       \/ \E r \in CallResults : OrderReturns(r)
       \/ BackoffTick
       \/ BackoffDone
       \/ HoldTick
       \/ \E r \in CallResults : BackReturns(r)
       \/ RetryWaitTick
       \/ RetryWaitDone
       \/ SettleDone
       \/ CloseDone
    /\ UNCHANGED <<regVars, storeVars, sdkVars>>

\* SpecLoop with every awaited call and sleep of run() eventually over;
\* stop() and the cancellation may or may not happen
SpecLoopFair == SpecLoop /\ WF_vars(LoopRuns)

-----------------------------------------------------------------------------
(* The registry: background.task_manager and app/routers/tasks.py *)

\* accounts (user_id) and vehicles (car_number) of the explored runs
Users == {"u1", "u2"}
Cars == {"c1", "c2"}

\* sdk CarModel: BICYCLE = 1, EBIKE = 2; the type the area query reports
BICYCLE == 1
EBIKE == 2
CarModelOf(c) == IF c = "c1" THEN BICYCLE ELSE EBIKE

\* ReservationTask.__init__ default max_loops, used by the create route
DefaultMaxLoops == 10

\* handles the registry may hold in all, and passes of one task that are explored
MaxTasks == 2
MaxPasses == 1

\* slots for create requests in flight at once
CreateSlots == {1}

\* ReservationTask.__init__: a new handle, pending, run() scheduled
NewTask(car, cap) ==
    [car_number |-> car, max_loops |-> cap, current_loop |-> 0,
     status |-> "pending", stop |-> FALSE]

TotalTasks == Len(task_manager["u1"]) + Len(task_manager["u2"])

\* a faulty variant of CreateConflict that overlooks pending tasks
CreateConflictRunningOnly(u, car) ==
    \E k \in DOMAIN task_manager[u] :
        /\ task_manager[u][k].car_number = car
        /\ task_manager[u][k].status = "running"

\* the check of the create route (tasks.py lines 23-27): the account's list
\* holds a task for the car whose status is pending or running
CreateConflict(u, car) ==
    \E k \in DOMAIN task_manager[u] :
        /\ task_manager[u][k].car_number = car
        /\ task_manager[u][k].status \in {"pending", "running"}

IdleCreate == [pc |-> "idle", user_id |-> "", car_number |-> "", response |-> 0]

\* a request answered with this HTTP status: 200, 400 (HTTPException of the
\* check) or 500 (get_user_info raised)
Answered(code) == [pc |-> "answered", user_id |-> "", car_number |-> "", response |-> code]

\* POST /api/tasks arrives: get_authenticated_client, then the handler awaits
\* client.get_user_info() (tasks.py line 19)
CreateRequest(s, u, car) ==
    /\ creates[s].pc \in {"idle", "answered"}
    /\ creates' = [creates EXCEPT ![s] =
                     [pc |-> "get_user_info", user_id |-> u, car_number |-> car,
                      response |-> 0]]
    /\ UNCHANGED <<task_manager, tasks, execs>>

\* get_user_info returns or raises; the rest of the handler (lines 20-38) runs
\* without another await: the check, then the append and create_task
CreateProceeds(s, r) ==
    LET u == creates[s].user_id
        car == creates[s].car_number
    IN  /\ creates[s].pc = "get_user_info"
        /\ CASE r # "ok" ->
                  /\ creates' = [creates EXCEPT ![s] = Answered(500)]
                  /\ UNCHANGED task_manager
             [] r = "ok" /\ CreateConflict(u, car) ->
                  /\ creates' = [creates EXCEPT ![s] = Answered(400)]
                  /\ UNCHANGED task_manager
             [] OTHER ->
                  /\ TotalTasks < MaxTasks
                  /\ task_manager' = [task_manager EXCEPT
                                        ![u] = Append(@, NewTask(car, DefaultMaxLoops))]
                  /\ creates' = [creates EXCEPT ![s] = Answered(200)]
        /\ UNCHANGED <<tasks, execs>>

\* a faulty variant of StopRequest that takes the first task for the car
\* whatever its status
StopRequestAnyStatus(u, car) ==
    LET hits == {k \in DOMAIN task_manager[u] : task_manager[u][k].car_number = car}
    IN  /\ IF hits = {}
           THEN UNCHANGED task_manager
           ELSE LET k == CHOOSE m \in hits : \A n \in hits : m <= n
                IN  task_manager' = [task_manager EXCEPT ![u][k].stop = TRUE]
        /\ UNCHANGED <<tasks, creates, execs>>

\* DELETE /api/tasks/{car_number} (tasks.py lines 55-83) after its only await,
\* get_user_info, which precedes every read of task_manager: the first pending
\* or running task of the account for the car is stopped, if there is one
StopRequest(u, car) ==
    LET hits == {k \in DOMAIN task_manager[u] :
                    /\ task_manager[u][k].car_number = car
                    /\ task_manager[u][k].status \in {"pending", "running"}}
    IN  /\ IF hits = {}
           THEN UNCHANGED task_manager
           ELSE LET k == CHOOSE m \in hits : \A n \in hits : m <= n
                IN  task_manager' = [task_manager EXCEPT ![u][k].stop = TRUE]
        /\ UNCHANGED <<tasks, creates, execs>>

\* ReservationTask.run as the registry sees it: the handle's status, counter
\* and flag at the head of the while loop.  A task of the registry was built
\* from a token set_token had accepted, so its run() reaches the loop.
TaskWhileHead(t) ==
    IF t.current_loop < t.max_loops /\ ~t.stop
    THEN [t EXCEPT !.current_loop = @ + 1, !.status = "running"]
    ELSE [t EXCEPT !.status = IF t.current_loop >= t.max_loops
                              THEN "completed" ELSE "stopped"]

\* lines 91-98 after a break
TaskBreak(t) ==
    [t EXCEPT !.status = IF t.current_loop >= t.max_loops
                         THEN "completed" ELSE "stopped"]

\* run() of a pending task starts (lines 20-30)
RunStarts(u, k) ==
    /\ k \in DOMAIN task_manager[u]
    /\ task_manager[u][k].status = "pending"
    /\ task_manager' = [task_manager EXCEPT ![u][k] = TaskWhileHead(@)]
    /\ UNCHANGED <<tasks, creates, execs>>

\* the pass in progress of a running task ends: by `continue` or at the end
\* of the body (the loop head follows), or by one of the `break`s
RunPassEnds(u, k, how) ==
    /\ k \in DOMAIN task_manager[u]
    /\ task_manager[u][k].status = "running"
    /\ IF how = "break"
       THEN task_manager' = [task_manager EXCEPT ![u][k] = TaskBreak(@)]
       ELSE /\ TaskWhileHead(task_manager[u][k]).current_loop <= MaxPasses
            /\ task_manager' = [task_manager EXCEPT ![u][k] = TaskWhileHead(@)]
    /\ UNCHANGED <<tasks, creates, execs>>

-----------------------------------------------------------------------------
(* PeriodicTaskManager._execute_task, app/scheduler.py *)

\* scan definitions of the explored store, and the caps they carry
Defs == {1}
DefCaps == {1}

\* min_electricity of the explored definitions
Thresholds == {50}

\* CarInfo.electricity as the detail query returns it: absent (None) or a
\* string, written as its sequence of characters
NoElectricity == [present |-> FALSE, text |-> <<>>]
Electricities ==
    {NoElectricity} \cup
    {[present |-> TRUE, text |-> t] :
        t \in {<<>>, <<"%">>, <<"4", "9", "%">>, <<"5", "0", "%">>, <<"8", "0", "%">>}}

\* the answers of client.get_car_info: a detail record (the provider answers
\* GET car/{number} with the detail of that number), APIError, or any
\* exception the inner except clause does not name
DetailResults ==
    {[kind |-> "ok", electricity |-> e] : e \in Electricities} \cup
    {[kind |-> "APIError", electricity |-> NoElectricity],
     [kind |-> "Exception", electricity |-> NoElectricity]}

Digits == {"0", "1", "2", "3", "4", "5", "6", "7", "8", "9"}
DigitValue(ch) ==
    CASE ch = "0" -> 0 [] ch = "1" -> 1 [] ch = "2" -> 2 [] ch = "3" -> 3
      [] ch = "4" -> 4 [] ch = "5" -> 5 [] ch = "6" -> 6 [] ch = "7" -> 7
      [] ch = "8" -> 8 [] ch = "9" -> 9

\* electricity.replace('%', '')
NotPercent(ch) == ch # "%"
StripPercent(text) == SelectSeq(text, NotPercent)

\* int(...) of a digit string; ValueError (here -1) on anything else
RECURSIVE DecimalValue(_)
DecimalValue(text) ==
    IF text = <<>> THEN 0
    ELSE 10 * DecimalValue(SubSeq(text, 1, Len(text) - 1)) + DigitValue(text[Len(text)])
ParseInt(text) ==
    IF text # <<>> /\ \A n \in DOMAIN text : text[n] \in Digits
    THEN DecimalValue(text) ELSE 0 - 1

\* a faulty variant of Accepts that rejects a charge equal to the threshold
AcceptsStrictlyAbove(detail, min_electricity) ==
    /\ detail.kind = "ok"
    /\ detail.electricity.present
    /\ detail.electricity.text # <<>>
    /\ ParseInt(StripPercent(detail.electricity.text)) >= 0
    /\ ParseInt(StripPercent(detail.electricity.text)) > min_electricity

\* lines 68-73: the detail is accepted when it carries a non-empty
\* electricity whose number is at least min_electricity; a ValueError of int()
\* is caught by the inner except clause and the candidate passed over
Accepts(detail, min_electricity) ==
    /\ detail.kind = "ok"
    /\ detail.electricity.present
    /\ detail.electricity.text # <<>>
    /\ ParseInt(StripPercent(detail.electricity.text)) >= 0
    /\ ParseInt(StripPercent(detail.electricity.text)) >= min_electricity

\* a faulty variant of Eligible that ignores the type filter
EligibleAnyModel(car, target_car_model_id) == TRUE

\* lines 53-56: the cars kept for the walk
Eligible(car, target_car_model_id) ==
    target_car_model_id = 0 \/ CarModelOf(car) = target_car_model_id

\* a faulty variant of AlreadyHandled that overlooks pending tasks
AlreadyHandledRunningOnly(u, car) ==
    \E k \in DOMAIN task_manager[u] :
        /\ task_manager[u][k].car_number = car
        /\ task_manager[u][k].status = "running"

\* line 63: the car is passed over when the account has a pending or running
\* task for it
AlreadyHandled(u, car) ==
    \E k \in DOMAIN task_manager[u] :
        /\ task_manager[u][k].car_number = car
        /\ task_manager[u][k].status \in {"pending", "running"}

\* the walk from the head of `order` up to the next await: cars already
\* handled are passed over without one
RECURSIVE SkipHandled(_, _)
SkipHandled(u, order) ==
    IF order = <<>> THEN <<>>
    ELSE IF AlreadyHandled(u, Head(order)) THEN SkipHandled(u, Tail(order))
    ELSE order

\* all orders random.shuffle can leave a list of these cars in
Orders(S) ==
    {o \in [1 .. Cardinality(S) -> S] : \A a, b \in DOMAIN o : a # b => o[a] # o[b]}

\* whether the account has a pending or running loop for the car (as the
\* claims state it)
ActiveLoopExists(u, car) ==
    \E k \in DOMAIN task_manager[u] :
        LET t == task_manager[u][k]
        IN  t.car_number = car /\ (t.status = "pending" \/ t.status = "running")

IdleExec ==
    [pc |-> "idle", user_id |-> "", cur |-> "", rest |-> <<>>,
     status |-> <<"Unknown", "">>,
     \* observations: the examined cars that met the definition's criteria,
     \* whether the car being fetched had no active loop when it was picked,
     \* whether an exception other than APIError ended the run
     \* the cars the walk has come to so far, and whether a detail fetch
     \* raised an exception the inner except clause caught
     qualified |-> {}, unclaimed |-> FALSE, fault |-> FALSE, considered |-> {},
     detail_raised |-> FALSE,
     \* the cars get_surrounding_cars returned, and the electricity of the
     \* detail that was accepted
     found |-> {}, electricity |-> NoElectricity]

\* the cars of `order` the walk comes to when it stops in front of `left`
Walked(order, left) ==
    {order[n] : n \in 1 .. (Len(order) - Len(left) + (IF left = <<>> THEN 0 ELSE 1))}

\* the walk goes on with `order`: the next car not already handled is
\* fetched (get_car_info awaited), or the walk is over without a car found
\* (lines 90-92) and the finally block awaits client.close()
ExecWalk(d, found, order) ==
    LET u == execs[d].user_id
        left == SkipHandled(u, order)
    IN  IF left = <<>>
        THEN execs' = [execs EXCEPT ![d].pc = "close", ![d].cur = "", ![d].rest = <<>>,
                                    ![d].unclaimed = FALSE,
                                    ![d].found = found,
                                    ![d].considered = @ \cup Walked(order, left),
                                    ![d].status = <<"NoSuitable", "">>]
        ELSE execs' = [execs EXCEPT ![d].pc = "get_car_info", ![d].cur = Head(left),
                                    ![d].rest = Tail(left),
                                    ![d].found = found,
                                    ![d].considered = @ \cup Walked(order, left),
                                    ![d].unclaimed = ~ActiveLoopExists(u, Head(left))]

\* a faulty variant of ExecFails that leaves out line 96: the outcome stays
\* the initial "Failed: Unknown error" and does not tell the exception
ExecFailsUnrecorded(d) ==
    execs' = [execs EXCEPT ![d].pc = "close", ![d].cur = "", ![d].rest = <<>>,
                           ![d].unclaimed = FALSE, ![d].fault = TRUE]

\* an exception no inner clause catches: lines 94-96 set the outcome to
\* "Failed: {e}", then the finally block awaits client.close()
ExecFails(d) ==
    execs' = [execs EXCEPT ![d].pc = "close", ![d].cur = "", ![d].rest = <<>>,
                           ![d].unclaimed = FALSE,
                           ![d].status = <<"Failed", "">>, ![d].fault = TRUE]

\* the trigger of definition d fires (one run of a job at a time): the client
\* is built and the stored token set, inside the try block (line 40); a token
\* set_token rejects ends the run through the outer except clause, otherwise
\* get_user_info is awaited (line 41)
ExecTrigger(d) ==
    /\ execs[d].pc = "idle"
    /\ IF tasks[d].token = "decodable"
       THEN execs' = [execs EXCEPT ![d] = [IdleExec EXCEPT !.pc = "get_user_info"]]
       ELSE ExecFails(d)
    /\ UNCHANGED <<task_manager, tasks, creates>>

\* get_user_info returns or raises; get_surrounding_cars awaited (lines 41-48)
ExecUserInfo(d, r) ==
    /\ execs[d].pc = "get_user_info"
    /\ IF r = "ok"
       THEN execs' = [execs EXCEPT ![d].pc = "get_surrounding_cars",
                                   ![d].user_id = tasks[d].user_id]
       ELSE ExecFails(d)
    /\ UNCHANGED <<task_manager, tasks, creates>>

\* get_surrounding_cars returns `found` or raises; the list is filtered and
\* shuffled into `order`, and the walk begins (lines 50-67)
ExecSurroundingCars(d, r, found) ==
    /\ execs[d].pc = "get_surrounding_cars"
    /\ IF r = "ok"
       THEN \E order \in Orders({c \in found : Eligible(c, tasks[d].carmodel_id)}) :
                ExecWalk(d, found, order)
       ELSE /\ found = {}
            /\ ExecFails(d)
    /\ UNCHANGED <<task_manager, tasks, creates>>

\* whether the car just fetched met the criteria of the definition, as the
\* claims state them: of the wanted type, no active loop of the account when
\* it was picked, a detail with a battery reading of at least the threshold
Qualifies(d, detail) ==
    /\ tasks[d].carmodel_id # 0 => CarModelOf(execs[d].cur) = tasks[d].carmodel_id
    /\ execs[d].unclaimed
    /\ detail.kind = "ok"
    /\ detail.electricity.present
    /\ ParseInt(StripPercent(detail.electricity.text)) >= tasks[d].min_electricity

\* get_car_info returns or raises (lines 66-92): an accepted car gets a new
\* task appended and scheduled and the walk ends; APIError, ValueError and
\* a car not accepted let the walk go on; any other exception ends the run
ExecCarInfo(d, detail) ==
    LET u == execs[d].user_id
        car == execs[d].cur
        q == IF Qualifies(d, detail) THEN execs[d].qualified \cup {car}
             ELSE execs[d].qualified
    IN  /\ execs[d].pc = "get_car_info"
        /\ CASE detail.kind = "Exception" ->
                  /\ ExecFails(d)
                  /\ UNCHANGED task_manager
             [] detail.kind # "Exception" /\ Accepts(detail, tasks[d].min_electricity) ->
                  /\ TotalTasks < MaxTasks
                  /\ task_manager' = [task_manager EXCEPT
                                        ![u] = Append(@, NewTask(car, tasks[d].max_loops))]
                  /\ execs' = [execs EXCEPT ![d].pc = "close", ![d].cur = "",
                                            ![d].rest = <<>>, ![d].unclaimed = FALSE,
                                            ![d].status = <<"Success", car>>,
                                            ![d].electricity = detail.electricity,
                                            ![d].qualified = q]
             [] OTHER ->
                  /\ \E e2 \in {[execs EXCEPT ![d].qualified = q,
                                                ![d].detail_raised =
                                                   @ \/ detail.kind = "APIError"]} :
                        LET left == SkipHandled(u, execs[d].rest)
                        IN  IF left = <<>>
                            THEN execs' = [e2 EXCEPT ![d].pc = "close", ![d].cur = "",
                                                     ![d].rest = <<>>,
                                                     ![d].unclaimed = FALSE,
                                                     ![d].considered =
                                                        @ \cup Walked(execs[d].rest, left),
                                                     ![d].status = <<"NoSuitable", "">>]
                            ELSE execs' = [e2 EXCEPT ![d].cur = Head(left),
                                                     ![d].rest = Tail(left),
                                                     ![d].considered =
                                                        @ \cup Walked(execs[d].rest, left),
                                                     ![d].unclaimed =
                                                        ~ActiveLoopExists(u, Head(left))]
                  /\ UNCHANGED task_manager
        /\ UNCHANGED <<tasks, creates>>

\* client.close() returns; the stored definition with this id gets the
\* outcome and the store is saved (lines 97-105)
ExecClose(d) ==
    /\ execs[d].pc = "close"
    /\ tasks' = [tasks EXCEPT ![d].last_run_status = execs[d].status]
    /\ execs' = [execs EXCEPT ![d] = IdleExec]
    /\ UNCHANGED <<task_manager, creates>>

-----------------------------------------------------------------------------
(* The registry specification *)

\* the store as loaded at construction: definitions of account u1, with or
\* without a vehicle-type filter (0 stands for None); json.load takes the
\* token as the file has it
StoredDefinitions ==
    {[id |-> d, user_id |-> "u1", token |-> tok, carmodel_id |-> m,
      min_electricity |-> min, max_loops |-> cap,
      last_run_status |-> <<"None", "">>] :
        d \in Defs, tok \in Tokens, m \in {0, EBIKE}, min \in Thresholds,
        cap \in DefCaps}

InitReg ==
    /\ LoopNone
    /\ StoreNone
    /\ HttpNone
    /\ SocketNone
    /\ task_manager = [u \in Users |-> <<>>]
    /\ tasks \in {t \in [Defs -> StoredDefinitions] : \A d \in Defs : t[d].id = d}
    /\ creates = [s \in CreateSlots |-> IdleCreate]
    /\ execs = [d \in Defs |-> IdleExec]

NextReg ==
    \/ (\E s \in CreateSlots, u \in Users, car \in Cars : CreateRequest(s, u, car))
          /\ UNCHANGED <<loopVars, storeVars, sdkVars>>
    \/ (\E s \in CreateSlots, r \in {"ok", "APIError"} : CreateProceeds(s, r))
          /\ UNCHANGED <<loopVars, storeVars, sdkVars>>
    \/ (\E u \in Users, car \in Cars : StopRequest(u, car)) /\ UNCHANGED <<loopVars, storeVars, sdkVars>>
    \/ (\E u \in Users, k \in 1 .. MaxTasks : RunStarts(u, k)) /\ UNCHANGED <<loopVars, storeVars, sdkVars>>
    \/ (\E u \in Users, k \in 1 .. MaxTasks, how \in {"next", "break"} :
            RunPassEnds(u, k, how)) /\ UNCHANGED <<loopVars, storeVars, sdkVars>>
    \/ (\E d \in Defs : ExecTrigger(d)) /\ UNCHANGED <<loopVars, storeVars, sdkVars>>
    \/ (\E d \in Defs, r \in {"ok", "Exception"} : ExecUserInfo(d, r))
          /\ UNCHANGED <<loopVars, storeVars, sdkVars>>
    \/ (\E d \in Defs, r \in {"ok", "Exception"}, found \in SUBSET Cars :
            ExecSurroundingCars(d, r, found)) /\ UNCHANGED <<loopVars, storeVars, sdkVars>>
    \/ (\E d \in Defs, detail \in DetailResults : ExecCarInfo(d, detail))
          /\ UNCHANGED <<loopVars, storeVars, sdkVars>>
    \/ (\E d \in Defs : ExecClose(d)) /\ UNCHANGED <<loopVars, storeVars, sdkVars>>

SpecReg == InitReg /\ [][NextReg]_vars

-----------------------------------------------------------------------------
(* PeriodicTaskManager: the store, its file and its triggers, app/scheduler.py *)

\* uuid4 ids add_task draws in all
MaxDefs == 2

\* crontab expressions, written as their whitespace-separated fields; cron is
\* an unvalidated str (models.py line 31)
Crons == {<<"0", "8", "*", "*", "*">>, <<"30", "9", "*", "*", "*">>, <<"@daily">>}

\* CronTrigger.from_crontab(expr): ValueError unless expr.split() has five
\* fields (the fields of the explored expressions are well-formed)
CrontabFields == {"minute", "hour", "day", "month", "day_of_week"}
ValidCrontab(expr) == Len(expr) = Cardinality(CrontabFields)

\* bodies of PeriodicTaskCreate requests (routers/periodic.py: request.dict())
Requests ==
    [cron : Crons, carmodel_id : {0}, min_electricity : Thresholds, max_loops : DefCaps]

\* what the part of _execute_task before its finally block ends with: a car
\* with enough charge (lines 78-89) or none (lines 90-92); the exceptions
\* of lines 94-96 are followed in ExecFails
Outcomes == {<<"Success", "c1">>, <<"NoSuitable", "">>}

\* values of datetime.now().isoformat() (line 102)
Clock == {"2026-11-02T08:00:00"}

\* how many ReservationTasks the runs of _execute_task create
MaxCreated == 1

\* create_periodic_task lines 22-24 and add_task lines 124-125: the request's
\* fields with user_id, token and a fresh id
TaskConfig(id, u, req) ==
    [id |-> id, user_id |-> u, token |-> "decodable", cron |-> req.cron,
     carmodel_id |-> req.carmodel_id, min_electricity |-> req.min_electricity,
     max_loops |-> req.max_loops, last_run_time |-> "None",
     last_run_status |-> <<"None", "">>]

\* update_periodic_task lines 54-55 and update_task line 143: dict.update with
\* the request's fields and the caller's token
Updated(t, req) ==
    [t EXCEPT !.cron = req.cron, !.carmodel_id = req.carmodel_id,
              !.min_electricity = req.min_electricity, !.max_loops = req.max_loops,
              !.token = "decodable"]

\* json.dump / json.load of the list of dicts: every value is written as a
\* JSON number or a JSON string and read back from it
NumberKeys == {"id", "carmodel_id", "min_electricity", "max_loops"}
JsonDump(list) ==
    [n \in DOMAIN list |->
        [k \in DOMAIN list[n] |->
            IF k \in NumberKeys THEN <<"number", list[n][k]>>
            ELSE <<"string", list[n][k]>>]]
JsonLoad(text) ==
    [n \in DOMAIN text |-> [k \in DOMAIN text[n] |-> text[n][k][2]]]

\* _save_tasks_to_file (lines 31-33)
SaveTasksToFile(list) == [exists |-> TRUE, text |-> JsonDump(list)]

\* _load_tasks_from_file (lines 24-29)
LoadTasksFromFile(f) == IF f.exists THEN JsonLoad(f.text) ELSE <<>>

\* a faulty variant of OwnerMatch that looks at the id only
OwnerMatchIdOnly(t, task_id, user_id) == t["id"] = task_id

\* the generator condition of update_task and remove_task (lines 139, 155)
OwnerMatch(t, task_id, user_id) == t["id"] = task_id /\ t["user_id"] = user_id

\* next((task for task in self.tasks if ...), None): the index of the first
\* match, 0 for None
FirstMatch(task_id, user_id) ==
    LET hits == {n \in DOMAIN tasks : OwnerMatch(tasks[n], task_id, user_id)}
    IN  IF hits = {} THEN 0 ELSE CHOOSE n \in hits : \A m \in hits : n <= m

\* self.tasks.remove(task) for the task at index n
RemoveAt(list, n) == SubSeq(list, 1, n - 1) \o SubSeq(list, n + 1, Len(list))

\* a job of the scheduler: its id and the crontab of its trigger
Job(id, cron) == [id |-> id, cron |-> cron]
HasJob(id) == \E j \in jobs : j.id = id

\* start() lines 108-115: add_job for each stored definition in turn, until
\* from_crontab raises
RECURSIVE AddJobs(_, _)
AddJobs(list, armed) ==
    IF list = <<>> THEN [jobs |-> armed, raised |-> FALSE]
    ELSE IF ValidCrontab(Head(list).cron)
    THEN AddJobs(Tail(list), armed \cup {Job(Head(list).id, Head(list).cron)})
    ELSE [jobs |-> armed, raised |-> TRUE]

Call(op, id, u, code) == [op |-> op, id |-> id, user_id |-> u, code |-> code]

\* POST /api/periodic after its await (get_user_info): add_task appends and
\* saves (lines 124-127), then builds the trigger; a ValueError of
\* from_crontab leaves add_task after the save, and the route answers 400
AddTask(u, req) ==
    LET id == next_id + 1
    IN  /\ scheduler = "running"
        /\ next_id < MaxDefs
        /\ next_id' = id
        /\ tasks' = Append(tasks, TaskConfig(id, u, req))
        /\ file' = SaveTasksToFile(tasks')
        /\ IF ValidCrontab(req.cron)
           THEN /\ jobs' = jobs \cup {Job(id, req.cron)}
                /\ last_call' = Call("add", id, u, 200)
           ELSE /\ jobs' = jobs
                /\ last_call' = Call("add", id, u, 400)
        /\ UNCHANGED <<scheduler, firing, execs, task_manager>>

\* PUT /api/periodic/{task_id} after its await: update_task (lines 138-152);
\* ValueError (no match, or from_crontab) answers 404, JobLookupError of
\* reschedule_job 500
UpdateTask(task_id, u, req) ==
    LET n == FirstMatch(task_id, u)
    IN  /\ scheduler = "running"
        /\ IF n = 0
           THEN /\ last_call' = Call("update", task_id, u, 404)
                /\ UNCHANGED <<tasks, file, jobs, execs>>
           ELSE /\ tasks' = [tasks EXCEPT ![n] = Updated(@, req)]
                /\ execs' = [i \in DOMAIN execs |->
                                IF i = task_id
                                THEN [execs[i] EXCEPT !.task_config = Updated(@, req)]
                                ELSE execs[i]]
                /\ file' = SaveTasksToFile(tasks')
                /\ IF ~ValidCrontab(req.cron)
                   THEN /\ last_call' = Call("update", task_id, u, 404)
                        /\ jobs' = jobs
                   ELSE IF ~HasJob(task_id)
                   THEN /\ last_call' = Call("update", task_id, u, 500)
                        /\ jobs' = jobs
                   ELSE /\ last_call' = Call("update", task_id, u, 200)
                        /\ jobs' = {j \in jobs : j.id # task_id}
                                      \cup {Job(task_id, req.cron)}
        /\ UNCHANGED <<scheduler, next_id, firing, task_manager>>

\* DELETE /api/periodic/{task_id} after its await: remove_task (lines
\* 154-165); a failure of remove_job is caught and logged; remove_job leaves
\* a run of _execute_task that has started alone
RemoveTask(task_id, u) ==
    LET n == FirstMatch(task_id, u)
    IN  /\ scheduler = "running"
        /\ IF n = 0
           THEN /\ last_call' = Call("remove", task_id, u, 404)
                /\ UNCHANGED <<tasks, file, jobs>>
           ELSE /\ tasks' = RemoveAt(tasks, n)
                /\ file' = SaveTasksToFile(tasks')
                /\ jobs' = {j \in jobs : j.id # task_id}
                /\ last_call' = Call("remove", task_id, u, 200)
        /\ UNCHANGED <<scheduler, next_id, firing, execs, task_manager>>

\* the trigger of a job fires: _execute_task starts with the dict the job
\* was added with, which is the stored one (one run per job at a time); an
\* update_task changes that dict in place
StoreExecStarts(id) ==
    /\ scheduler = "running"
    /\ HasJob(id)
    /\ id \notin firing
    /\ \E n \in DOMAIN tasks :
          /\ tasks[n].id = id
          /\ execs' = [i \in firing \cup {id} |->
                          IF i = id
                          THEN [task_config |-> tasks[n], pc |-> "walk",
                                status |-> <<"Unknown", "">>]
                          ELSE execs[i]]
    /\ firing' = firing \cup {id}
    /\ last_call' = Call("fire", id, "", 0)
    /\ UNCHANGED <<tasks, file, jobs, scheduler, next_id, task_manager>>

\* the last remote call of the run returns or raises (lines 40-98, whose
\* walk over the cars is followed call by call in ExecTrigger .. ExecClose):
\* a car found gets a ReservationTask appended for the account of the token
\* (lines 78-89); the run goes on to await client.close()
StoreExecWalkEnds(id, outcome) ==
    LET cfg == execs[id].task_config
    IN  /\ scheduler = "running"
        /\ id \in firing
        /\ execs[id].pc = "walk"
        /\ execs' = [execs EXCEPT ![id].pc = "close", ![id].status = outcome]
        /\ IF outcome[1] = "Success"
           THEN /\ TotalTasks < MaxCreated
                /\ task_manager' = [task_manager EXCEPT
                       ![cfg.user_id] = Append(@, NewTask(outcome[2], cfg.max_loops))]
           ELSE task_manager' = task_manager
        /\ last_call' = Call("walk", id, "", 0)
        /\ UNCHANGED <<tasks, file, jobs, scheduler, next_id, firing>>

\* a faulty variant of StoreExecEnds that stamps every stored definition
StoreExecEndsAll(id, now) ==
    /\ scheduler = "running"
    /\ id \in firing
    /\ execs[id].pc = "close"
    /\ firing' = firing \ {id}
    /\ execs' = [i \in firing' |-> execs[i]]
    /\ tasks' = [n \in DOMAIN tasks |->
                    [tasks[n] EXCEPT !.last_run_time = now,
                                     !.last_run_status = execs[id].status]]
    /\ file' = SaveTasksToFile(tasks')
    /\ last_call' = Call("exec", id, "", 0)
    /\ UNCHANGED <<jobs, scheduler, next_id, task_manager>>

\* the finally block of _execute_task after client.close() (lines 99-105):
\* the first stored definition with the id, if there still is one, gets the
\* time and the outcome; the store is saved
StoreExecEnds(id, now) ==
    LET hits == {n \in DOMAIN tasks : tasks[n].id = id}
    IN  /\ scheduler = "running"
        /\ id \in firing
        /\ execs[id].pc = "close"
        /\ firing' = firing \ {id}
        /\ execs' = [i \in firing' |-> execs[i]]
        /\ tasks' = [n \in DOMAIN tasks |->
                        IF n \in hits /\ \A m \in hits : n <= m
                        THEN [tasks[n] EXCEPT !.last_run_time = now,
                                              !.last_run_status = execs[id].status]
                        ELSE tasks[n]]
        /\ file' = SaveTasksToFile(tasks')
        /\ last_call' = Call("exec", id, "", 0)
        /\ UNCHANGED <<jobs, scheduler, next_id, task_manager>>

\* the process is restarted: PeriodicTaskManager() loads the file (lines
\* 19-22) and the lifespan hook calls start() (lines 107-117); the jobs of the
\* old process and its task_manager are gone; when from_crontab raises, start() is left before
\* self.scheduler.start() and the application does not come up
Restart ==
    LET loaded == LoadTasksFromFile(file)
        armed == AddJobs(loaded, {})
    IN  /\ tasks' = loaded
        /\ jobs' = armed.jobs
        /\ scheduler' = (IF armed.raised THEN "failed" ELSE "running")
        /\ firing' = {}
        /\ execs' = <<>>
        /\ task_manager' = [u \in Users |-> <<>>]
        /\ last_call' = Call("restart", 0, "", 0)
        /\ UNCHANGED <<file, next_id>>

\* a fresh installation: no file, nothing stored, the scheduler started
InitStore ==
    /\ LoopNone
    /\ HttpNone
    /\ SocketNone
    /\ task_manager = [u \in Users |-> <<>>]
    /\ creates = <<>>
    /\ execs = <<>>
    /\ file = NoFile
    /\ tasks = LoadTasksFromFile(file)
    /\ jobs = {}
    /\ scheduler = "running"
    /\ next_id = 0
    /\ firing = {}
    /\ last_call = Call("restart", 0, "", 0)

NextStore ==
    \/ (\E u \in Users, req \in Requests : AddTask(u, req))
          /\ UNCHANGED <<loopVars, creates, sdkVars>>
    \/ (\E id \in 1 .. MaxDefs, u \in Users, req \in Requests : UpdateTask(id, u, req))
          /\ UNCHANGED <<loopVars, creates, sdkVars>>
    \/ (\E id \in 1 .. MaxDefs, u \in Users : RemoveTask(id, u))
          /\ UNCHANGED <<loopVars, creates, sdkVars>>
    \/ (\E id \in 1 .. MaxDefs : StoreExecStarts(id))
          /\ UNCHANGED <<loopVars, creates, sdkVars>>
    \/ (\E id \in 1 .. MaxDefs, outcome \in Outcomes : StoreExecWalkEnds(id, outcome))
          /\ UNCHANGED <<loopVars, creates, sdkVars>>
    \/ (\E id \in 1 .. MaxDefs, now \in Clock : StoreExecEnds(id, now))
          /\ UNCHANGED <<loopVars, creates, sdkVars>>
    \/ Restart /\ UNCHANGED <<loopVars, creates, sdkVars>>

SpecStore == InitStore /\ [][NextStore]_vars

-----------------------------------------------------------------------------
(* The routes of app/routers/tasks.py with their answers (specification SpecTasks) *)

\* ReservationTask.to_dict (the message is not followed)
ToDict(u, t) ==
    [user_id |-> u, car_number |-> t.car_number, max_loops |-> t.max_loops,
     current_loop |-> t.current_loop, status |-> t.status]

\* a faulty variant of Listed that leaves out the tasks that have ended
ListedActiveOnly(u) ==
    SelectSeq(task_manager[u], LAMBDA t : t.status \in {"pending", "running"})

\* the tasks get_user_tasks reports (tasks.py lines 48-53): all of the account
Listed(u) == task_manager[u]

\* GET /api/tasks after its await: the to_dict of every task of the account,
\* [] for an account without any
GetUserTasks(u) ==
    /\ last_call' = Call("list", "", u, [n \in DOMAIN Listed(u) |-> ToDict(u, Listed(u)[n])])
    /\ UNCHANGED <<task_manager, tasks, creates, execs>>

\* the stop route with its answer: 200, or 404 when the account has no
\* pending or running task for the car (lines 66-67, 75-76)
StopRoute(u, car) ==
    /\ StopRequest(u, car)
    /\ last_call' = Call("stop", car, u, IF CreateConflict(u, car) THEN 200 ELSE 404)

\* _execute_task lines 78-88 as the registry sees them: a task for a car the
\* walk accepted is appended to the list of the definition's account
SchedulerAppends(u, car, cap) ==
    /\ TotalTasks < MaxTasks
    /\ task_manager' = [task_manager EXCEPT ![u] = Append(@, NewTask(car, cap))]
    /\ UNCHANGED <<tasks, creates, execs>>

\* a step whose answer is not followed
NoCall == Call("none", "", "", 0)

InitTasks ==
    /\ LoopNone
    /\ HttpNone
    /\ SocketNone
    /\ task_manager = [u \in Users |-> <<>>]
    /\ tasks = <<>>
    /\ creates = [s \in CreateSlots |-> IdleCreate]
    /\ execs = <<>>
    /\ file = NoFile
    /\ jobs = {}
    /\ scheduler = "running"
    /\ next_id = 0
    /\ firing = {}
    /\ last_call = NoCall

NextTasks ==
    \/ (\E s \in CreateSlots, u \in Users, car \in Cars : CreateRequest(s, u, car))
          /\ last_call' = NoCall
          /\ UNCHANGED <<loopVars, file, jobs, scheduler, next_id, firing, sdkVars>>
    \/ (\E s \in CreateSlots, r \in {"ok", "APIError"} : CreateProceeds(s, r))
          /\ last_call' = NoCall
          /\ UNCHANGED <<loopVars, file, jobs, scheduler, next_id, firing, sdkVars>>
    \/ (\E u \in Users, car \in Cars : StopRoute(u, car))
          /\ UNCHANGED <<loopVars, file, jobs, scheduler, next_id, firing, sdkVars>>
    \/ (\E u \in Users : GetUserTasks(u))
          /\ UNCHANGED <<loopVars, file, jobs, scheduler, next_id, firing, sdkVars>>
    \/ (\E u \in Users, k \in 1 .. MaxTasks : RunStarts(u, k))
          /\ last_call' = NoCall
          /\ UNCHANGED <<loopVars, file, jobs, scheduler, next_id, firing, sdkVars>>
    \/ (\E u \in Users, k \in 1 .. MaxTasks, how \in {"next", "break"} :
            RunPassEnds(u, k, how))
          /\ last_call' = NoCall
          /\ UNCHANGED <<loopVars, file, jobs, scheduler, next_id, firing, sdkVars>>
    \/ (\E u \in Users, car \in Cars, cap \in DefCaps : SchedulerAppends(u, car, cap))
          /\ last_call' = NoCall
          /\ UNCHANGED <<loopVars, file, jobs, scheduler, next_id, firing, sdkVars>>

SpecTasks == InitTasks /\ [][NextTasks]_vars

-----------------------------------------------------------------------------
(* Claims about one loop, checked under SpecLoop *)

\* C2: for every cap N >= 1, a run in which no call failed, stop() was never
\* called and nothing else interfered ends completed with current_loop = N
\* after exactly N order_car calls, N hold windows of wait_seconds sleeps each
\* and N back_car calls.
C2_CompletedAfterNCycles ==
    (pc \in {"close", "done"} /\ seen = {} /\ max_loops >= 1) =>
        /\ status = "completed"
        /\ current_loop = max_loops
        /\ order_calls = max_loops
        /\ hold_sleeps = max_loops * wait_seconds
        /\ back_calls = max_loops

C2_Witness ==
    pc = "done" /\ seen = {} /\ max_loops = MaxCap /\ status = "completed"

\* C3: a loop on which stop() was called while it was running (and to which
\* nothing else happened) ends in state stopped.
C3_StopYieldsStopped ==
    (pc = "done" /\ seen = {"stop_running"}) => status = "stopped"

\* C4: a loop in which all max_retries return attempts of a cycle failed with
\* APIError, and stop() was not called, ends in state failed.
C4_FailedReturnsYieldFailed ==
    (pc = "done" /\ seen = {"return_failed", "all_returns_failed"}) => status = "failed"

\* C5: from the step in which the last of max_retries failed return attempts
\* of a cycle is over, the loop issues no order_car and no back_car call and
\* is on its way out (closing the client, or done), whatever its counter.
C5_NoCallAfterFailedReturns ==
    [][("all_returns_failed" \in seen') =>
          /\ order_calls' = order_calls
          /\ back_calls' = back_calls
          /\ pc' \in {"close", "done"}]_vars

C5_Witness ==
    pc = "done" /\ "all_returns_failed" \in seen /\ current_loop < max_loops

\* C6: a loop in which order_car or back_car raised an exception other than
\* APIError ends in state failed.
C6_ExceptionYieldsFailed ==
    (pc = "done" /\ seen \in {{"order_raised"}, {"return_raised"}}) => status = "failed"

\* C7: whenever a loop's status is running, current_loop <= max_loops, for
\* every cap a loop can be created with.
C7_IterationWithinCap ==
    status = "running" => current_loop <= max_loops

-----------------------------------------------------------------------------
(* Claims about the registry and the scheduler, checked under SpecReg *)

\* the pending or running tasks of an account for a car
ActiveLoops(u, car) ==
    {k \in DOMAIN task_manager[u] :
        /\ task_manager[u][k].car_number = car
        /\ task_manager[u][k].status \in {"pending", "running"}}

\* C1: in every reachable state each (account, vehicle) pair has at most one
\* task whose status is pending or running.
C1_OneActiveLoopPerVehicle ==
    \A u \in Users, car \in Cars : Cardinality(ActiveLoops(u, car)) <= 1

\* a handle as the constructor leaves it
FreshHandle(car, cap) ==
    [car_number |-> car, max_loops |-> cap, current_loop |-> 0,
     status |-> "pending", stop |-> FALSE]

\* C8: a create request whose account was resolved is answered with the
\* conflict error exactly when the account's list holds a pending or running
\* task for the car, and then leaves task_manager as it is; otherwise it
\* appends exactly one fresh pending handle for the car to the account's list
\* and changes nothing else of task_manager.
C8_CreateConflictExactly ==
    [][\A s \in CreateSlots :
          (creates[s].pc = "get_user_info" /\ creates'[s].pc = "answered"
              /\ creates'[s].response # 500) =>
            LET u == creates[s].user_id
                car == creates[s].car_number
            IN  IF ActiveLoopExists(u, car)
                THEN /\ creates'[s].response = 400
                     /\ task_manager' = task_manager
                ELSE /\ creates'[s].response = 200
                     /\ task_manager' = [task_manager EXCEPT
                           ![u] = Append(@, FreshHandle(car, DefaultMaxLoops))]]_vars

\* a create was answered 200 for a car of which the account's list held only
\* a terminated task
C8_Witness ==
    \E s \in CreateSlots, u \in Users :
        /\ creates[s].pc = "answered" /\ creates[s].response = 200
        /\ Len(task_manager[u]) = 2
        /\ task_manager[u][1].car_number = task_manager[u][2].car_number
        /\ task_manager[u][1].status \in {"completed", "stopped"}
        /\ task_manager[u][2] = FreshHandle(task_manager[u][2].car_number, DefaultMaxLoops)

\* C9: an execution that ends without an unexpected exception and in which no
\* car it came to met the criteria (wanted type, no active loop of the account,
\* battery reading at least the threshold) changes task_manager in none of its
\* steps, ends with the outcome "no suitable car", and stores that outcome.
C9_NoSuitableCreatesNothing ==
    [][\A d \in Defs :
          LET e == execs[d]
              e2 == execs'[d]
          IN  /\ (e.pc \in {"get_surrounding_cars", "get_car_info"} /\ e2 # e
                     /\ ~e2.fault /\ e2.qualified = {}) =>
                    /\ task_manager' = task_manager
                    /\ e2.pc = "close" => e2.status = <<"NoSuitable", "">>
              /\ (e.pc = "close" /\ e2.pc = "idle" /\ ~e.fault /\ e.qualified = {}) =>
                    /\ task_manager' = task_manager
                    /\ tasks'[d].last_run_status = <<"NoSuitable", "">>]_vars

\* an execution came to both cars, one of them under an active loop of the
\* account, and ended with "no suitable car"
C9_Witness ==
    \E d \in Defs :
        /\ execs[d].pc = "close"
        /\ execs[d].status = <<"NoSuitable", "">>
        /\ execs[d].considered = Cars
        /\ \E car \in Cars : ActiveLoopExists(execs[d].user_id, car)

\* C10: an execution that ends without an unexpected exception and came to a
\* car that met the criteria appends exactly one fresh handle, for a car that
\* met them and with the definition's cap, in its last step and none before,
\* ends with the outcome naming that car, and stores that outcome.
C10_QualifyingCarStartsOneLoop ==
    [][\A d \in Defs :
          LET e == execs[d]
              e2 == execs'[d]
          IN  /\ (e.pc = "get_car_info" /\ e2.pc = "close" /\ ~e2.fault
                     /\ e2.qualified # {}) =>
                    \E car \in e2.qualified :
                        /\ e2.status = <<"Success", car>>
                        /\ task_manager' = [task_manager EXCEPT
                              ![e.user_id] = Append(@, FreshHandle(car, tasks[d].max_loops))]
              /\ (e.pc = "get_car_info" /\ e2.pc = "get_car_info" /\ e2 # e) =>
                    task_manager' = task_manager
              /\ (e.pc = "close" /\ e2.pc = "idle" /\ e.qualified # {}) =>
                    /\ task_manager' = task_manager
                    /\ tasks'[d].last_run_status = e.status]_vars

\* an execution came to c2 first without starting a loop for it, then to c1,
\* and started the loop for c1
C10_Witness ==
    \E d \in Defs :
        /\ execs[d].pc = "close"
        /\ execs[d].status = <<"Success", "c1">>
        /\ execs[d].qualified = {"c1"}
        /\ execs[d].considered = Cars
        /\ ActiveLoopExists(execs[d].user_id, "c1")
        /\ ~ActiveLoopExists(execs[d].user_id, "c2")

-----------------------------------------------------------------------------
(* Further claims about one loop, checked under SpecLoop *)

\* C13: every run() that has ended - after the while loop, by CancelledError
\* or by set_token raising at its start - has closed the client it opened.
C13_SessionClosedOnEveryExit ==
    pc \in {"done", "raised"} => client = "closed"

\* C14: in the hold window the flag is looked at before every
\* asyncio.sleep(1): with the flag set no further sleep is begun, and when the
\* sleep in progress returns the loop leaves the window and sets its final
\* status in the same step (only client.close() remains).
C14_StopEndsHoldWithinOneSleep ==
    [][/\ (stop_event /\ pc' = "hold") => (pc = "hold" /\ hold_i' = hold_i)
       /\ (stop_event /\ pc = "hold" /\ hold_sleeps' # hold_sleeps) =>
             /\ hold_sleeps' = hold_sleeps + 1
             /\ pc' = "close"
             /\ status' \in {"completed", "stopped"}
             /\ order_calls' = order_calls
             /\ back_calls' = back_calls]_vars

\* C14, witness: a run stopped in the middle of its first hold window has ended
C14_Witness ==
    /\ pc = "done"
    /\ stop_event
    /\ "cancelled" \notin seen
    /\ order_calls = 1
    /\ back_calls = 0
    /\ hold_sleeps > 1
    /\ hold_sleeps < wait_seconds

\* C15: the backoff after a failed order_car looks at the flag once per time
\* unit: when a time unit of the backoff passes with the flag set, the loop
\* leaves the backoff and sets its final status.
C15_StopEndsBackoffWithinOneUnit ==
    [][(stop_event /\ pc = "backoff" /\ backoff_i' # backoff_i) =>
          /\ pc' = "close"
          /\ status' \in {"completed", "stopped"}]_vars

Terminal == {"completed", "stopped", "failed"}

\* C17: status moves only along pending -> running -> {completed, stopped,
\* failed}.  It leaves pending only in the step that starts run(), which sets
\* running at line 21 (and, when the while loop is not entered, goes on to
\* lines 91-98 before the first await); it becomes failed only from running;
\* running is never entered again; and once it is completed, stopped or failed
\* neither status nor current_loop changes in any later step.
C17_LifecycleOrder ==
    [][/\ (status = "pending" /\ status' # status) =>
             /\ pc = "pending"
             /\ pc' # "pending"
             /\ status' \in {"running", "completed", "stopped"}
       /\ (status = "running" /\ status' # status) => status' \in Terminal
       /\ (status' = "running" /\ status # "running") => status = "pending"
       /\ (status' = "failed" /\ status # "failed") => status = "running"
       /\ status \in Terminal =>
             /\ status' = status
             /\ current_loop' = current_loop]_vars

\* C17, witness: a loop that ran, was stopped and ended before its cap, with
\* its finally block done
C17_Witness ==
    /\ pc = "done"
    /\ status = "stopped"
    /\ stop_event
    /\ current_loop >= 1
    /\ current_loop < max_loops

-----------------------------------------------------------------------------
(* Claims about _execute_task's faults, checked under SpecReg *)

-----------------------------------------------------------------------------
(* Claims about the definition store, checked under SpecStore *)

\* C12: update_task and remove_task called with a user_id other than the
\* user_id of the stored definition with that id fail (ValueError, answered
\* 404) and leave the store, the file and the jobs as they were; and whatever
\* is called, a definition keeps its user_id, which is the caller of the
\* add_task that stored it under a fresh id.
C12_OwnerOnly ==
    [][/\ \A n \in DOMAIN tasks :
             (/\ last_call'.op \in {"update", "remove"}
              /\ tasks[n].id = last_call'.id
              /\ tasks[n].user_id # last_call'.user_id) =>
                 /\ last_call'.code = 404
                 /\ tasks' = tasks
                 /\ file' = file
                 /\ jobs' = jobs
       /\ \A n \in DOMAIN tasks, m \in DOMAIN tasks' :
             tasks[n].id = tasks'[m].id => tasks'[m].user_id = tasks[n].user_id
       /\ (last_call'.op = "add" /\ last_call' # last_call) =>
             /\ tasks' = Append(tasks, tasks'[Len(tasks')])
             /\ tasks'[Len(tasks')].id = last_call'.id
             /\ tasks'[Len(tasks')].user_id = last_call'.user_id
             /\ \A n \in DOMAIN tasks : tasks[n].id # last_call'.id]_vars

\* C12, witness: an update by another account than the owner was refused
\* while the definition is stored and armed
C12_Witness ==
    /\ last_call.op = "update"
    /\ last_call.code = 404
    /\ \E n \in DOMAIN tasks :
          /\ tasks[n].id = last_call.id
          /\ tasks[n].user_id # last_call.user_id
          /\ HasJob(tasks[n].id)

\* C20: a restart after any add_task / update_task / remove_task calls loads
\* the definitions the store held before it, and start() arms exactly one job
\* per loaded definition, with the trigger of its cron, and starts the
\* scheduler.
C20_RestartRestoresStore ==
    [][last_call'.op = "restart" =>
          /\ tasks' = tasks
          /\ scheduler' = "running"
          /\ jobs' = {Job(tasks'[n].id, tasks'[n].cron) : n \in DOMAIN tasks'}]_vars

-----------------------------------------------------------------------------
(* Claims about the routes of the registry, checked under SpecTasks *)

\* C18: a stop request of account u for a car answers 200 and sets the flag
\* of exactly one task, a pending or running task of u for that car, when u
\* has one, leaving every other task of every account (flag, status, counter)
\* as it was; otherwise it answers 404 and changes nothing.
C18_StopHitsOneActiveLoop ==
    [][last_call'.op = "stop" =>
          LET u == last_call'.user_id
              car == last_call'.id
              active == {k \in DOMAIN task_manager[u] :
                            /\ task_manager[u][k].car_number = car
                            /\ task_manager[u][k].status \in {"pending", "running"}}
          IN  IF active = {}
              THEN /\ last_call'.code = 404
                   /\ task_manager' = task_manager
              ELSE /\ last_call'.code = 200
                   /\ \E k \in active :
                         /\ task_manager'[u][k].stop
                         /\ task_manager' = [task_manager EXCEPT ![u][k].stop = TRUE]]_vars

\* C18, witness: a stop request has just set the flag of the active task for
\* the car while an ended task of the account for the same car kept its own
C18_Witness ==
    /\ last_call.op = "stop"
    /\ last_call.code = 200
    /\ \E k, m \in DOMAIN task_manager[last_call.user_id] :
          LET t == task_manager[last_call.user_id]
          IN  /\ k # m
              /\ t[k].car_number = last_call.id
              /\ t[m].car_number = last_call.id
              /\ t[k].status \in {"completed", "stopped"}
              /\ ~t[k].stop
              /\ t[m].status \in {"pending", "running"}
              /\ t[m].stop

C28_ReturnAttemptsBounded ==
    [][/\ back_calls' # back_calls =>
             /\ back_calls' = back_calls + 1
             /\ ~stop_event
             /\ pc' = "back_car"
             /\ retry_i' < max_retries
             /\ \/ pc = "hold" /\ retry_i' = 0
                \/ pc = "retry_wait" /\ retry_i' = retry_i + 1 /\ backoff_i = 1
       /\ pc = "settle" => back_calls' = back_calls
       /\ (pc = "back_car" /\ pc' = "retry_wait") => backoff_i' = 15
       /\ (pc = "retry_wait" /\ pc' = "retry_wait") =>
             backoff_i' \in {backoff_i, backoff_i - 1}
       /\ (pc = "retry_wait" /\ pc' # "retry_wait" /\ pc' # "close") =>
             backoff_i = 1]_vars

\* C28, witness: the twelfth return attempt of a cycle is in flight after
\* eleven failed ones
C28_Witness ==
    /\ pc = "back_car"
    /\ retry_i = max_retries - 1
    /\ back_calls = max_retries
    /\ "return_failed" \in seen

\* C29: the hold window is entered only when a reserve call has returned
\* without a fault, starts at 1440 and goes down by one per completed sleep;
\* the first return call of a cycle is issued when the last of the 1440 sleeps
\* has returned, later ones after a retry wait, all within the same cycle; a
\* reserve call is issued only at the start, after a reserve that failed, or
\* after a return that succeeded.
C29_ReserveHoldReturnOrder ==
    /\ [](pc = "settle" => return_successful)
    /\ [](pc = "backoff" => "order_failed" \in seen)
    /\ [][/\ (pc' = "hold" /\ pc # "hold") =>
                /\ pc = "order_car"
                /\ hold_i' = 1440
                /\ seen' = seen
                /\ ~return_successful'
          /\ (pc = "hold" /\ pc' = "hold" /\ hold_i' # hold_i) =>
                /\ hold_i' = hold_i - 1
                /\ hold_sleeps' = hold_sleeps + 1
          /\ back_calls' # back_calls =>
                /\ current_loop' = current_loop
                /\ order_calls' = order_calls
                /\ IF retry_i' = 0
                   THEN /\ pc = "hold"
                        /\ hold_i = 1
                        /\ hold_sleeps' > 0
                        /\ hold_sleeps' % 1440 = 0
                   ELSE pc = "retry_wait"
          /\ order_calls' # order_calls =>
                /\ order_calls' = order_calls + 1
                /\ back_calls' = back_calls
                /\ \/ pc \in {"pending", "backoff"}
                   \/ pc = "settle" /\ return_successful]_vars

\* C29, witness: the second cycle of a loop has held its vehicle for the whole
\* window and its return call is in flight
C29_Witness ==
    /\ pc = "back_car"
    /\ order_calls = 2
    /\ back_calls = 2
    /\ hold_sleeps = 2 * 1440

\* C30: when an execution starts a loop, the loop's vehicle is one the area
\* query returned, is of the definition's vehicle type when the definition
\* names one, and the detail fetched for it carried a battery reading whose
\* percentage is at least the definition's threshold.
C30_SelectedCarMeetsCriteria ==
    [][\A d \in Defs, u \in Users :
          (Len(task_manager'[u]) > Len(task_manager[u]) /\ execs'[d] # execs[d]) =>
             LET t == task_manager'[u][Len(task_manager'[u])]
                 e2 == execs'[d]
             IN  /\ u = tasks[d].user_id
                 /\ e2.status = <<"Success", t.car_number>>
                 /\ t.car_number \in execs[d].found
                 /\ tasks[d].carmodel_id # 0 =>
                       CarModelOf(t.car_number) = tasks[d].carmodel_id
                 /\ e2.electricity.present
                 /\ ParseInt(StripPercent(e2.electricity.text)) >= tasks[d].min_electricity]_vars

\* C30, witness: a definition with the e-bike filter and threshold 50 has
\* started a loop for the e-bike c2, whose detail read exactly 50%, while the
\* area query had returned the bicycle c1 too
C30_Witness ==
    \E d \in Defs :
        /\ tasks[d].carmodel_id = EBIKE
        /\ tasks[d].min_electricity = 50
        /\ execs[d].pc = "close"
        /\ execs[d].found = Cars
        /\ execs[d].status = <<"Success", "c2">>
        /\ execs[d].electricity.text = <<"5", "0", "%">>
        /\ ActiveLoopExists("u1", "c2")

-----------------------------------------------------------------------------
(* The transport client: SevenPaceAsyncClient.set_token and _request *)

\* the HTTP status codes drawn for a response
StatusCodes == {200, 201, 204, 302, 399, 400, 401, 404, 500}

\* a response body: its text, whether the text is JSON, and for JSON text the
\* value it stands for: the type t, the number n or string s of a scalar, the
\* keys of an object (the string items of an array), and of an object the
\* value of "status_code" (type sc_t, number sc_n) and of "message"
Body(text, json, t, n, s, keys, sc_t, sc_n, message) ==
    [text |-> text, json |-> json, t |-> t, n |-> n, s |-> s, keys |-> keys,
     sc_t |-> sc_t, sc_n |-> sc_n, message |-> message]

Bodies ==
    {Body("", FALSE, "none", 0, "", {}, "none", 0, ""),
     Body("<html>Bad Gateway</html>", FALSE, "none", 0, "", {}, "none", 0, ""),
     Body("{}", TRUE, "object", 0, "", {}, "none", 0, ""),
     Body("{\"data\": 1}", TRUE, "object", 0, "", {"data"}, "none", 0, ""),
     Body("{\"status_code\": 200, \"message\": \"ok\", \"data\": 1}", TRUE, "object",
          0, "", {"status_code", "message", "data"}, "int", 200, "ok"),
     Body("{\"status_code\": 200}", TRUE, "object", 0, "", {"status_code"}, "int", 200, ""),
     Body("{\"status_code\": 500, \"message\": \"no car\"}", TRUE, "object",
          0, "", {"status_code", "message"}, "int", 500, "no car"),
     Body("{\"status_code\": 404}", TRUE, "object", 0, "", {"status_code"}, "int", 404, ""),
     Body("{\"status_code\": \"200\"}", TRUE, "object", 0, "", {"status_code"}, "str", 0, ""),
     Body("[]", TRUE, "array", 0, "", {}, "none", 0, ""),
     Body("[\"status_code\"]", TRUE, "array", 0, "", {"status_code"}, "none", 0, ""),
     Body("\"ok\"", TRUE, "str", 0, "ok", {}, "none", 0, ""),
     Body("\"status_code\"", TRUE, "str", 0, "status_code", {}, "none", 0, ""),
     Body("5", TRUE, "int", 5, "", {}, "none", 0, ""),
     Body("null", TRUE, "null", 0, "", {}, "none", 0, "")}

NoBody == Body("", FALSE, "none", 0, "", {}, "none", 0, "")

\* the responses http_client.request returns
Responses == [status_code : StatusCodes, body : Bodies]
NoResponse == [status_code |-> 0, body |-> NoBody]

\* how a call ends: with the value it returns or the exception it raises
Returned(body) == [kind |-> "return", message |-> "", body |-> body]
Raised(kind, message) == [kind |-> kind, message |-> message, body |-> NoBody]
NoOutcome == [kind |-> "none", message |-> "", body |-> NoBody]

\* `"status_code" in json_response` (line 297) on the value json() returned:
\* key membership for a dict, item membership for a list, substring for a
\* str (of the strings drawn only the key itself holds it), TypeError for a
\* value that is no container
Contains(body, key) ==
    CASE body.t = "object" -> IF key \in body.keys THEN "True" ELSE "False"
      [] body.t = "array" -> IF key \in body.keys THEN "True" ELSE "False"
      [] body.t = "str" -> IF body.s = key THEN "True" ELSE "False"
      [] OTHER -> "TypeError"

\* `json_response["status_code"] != 200` (line 297): only a dict can be
\* indexed by a str; a str value never equals 200
EmbeddedNot200(body) ==
    IF body.t # "object" THEN "TypeError"
    ELSE IF body.sc_t = "int" /\ body.sc_n = 200 THEN "False" ELSE "True"

\* `json_response.get("message", ...)` (line 298), the default rendered in
\* ASCII
GetMessage(body) ==
    IF "message" \in body.keys THEN body.message ELSE "unknown API error"

\* SevenPaceAsyncClient._request from the response on (lines 293-300)
Request(response) ==
    IF response.status_code >= 400
    THEN Raised("APIError", "request failed, status code: "
                               \o ToString(response.status_code)
                               \o ", content: " \o response.body.text)
    ELSE IF ~response.body.json
    THEN Raised("JSONDecodeError", "")
    ELSE IF Contains(response.body, "status_code") = "TypeError"
    THEN Raised("TypeError", "")
    ELSE IF Contains(response.body, "status_code") = "False"
    THEN Returned(response.body)
    ELSE IF EmbeddedNot200(response.body) = "TypeError"
    THEN Raised("TypeError", "")
    ELSE IF EmbeddedNot200(response.body) = "True"
    THEN Raised("APIError", GetMessage(response.body))
    ELSE Returned(response.body)

\* the tokens handed to set_token: the text, whether jwt.decode (signature
\* not verified) gets a payload out of it or raises DecodeError, and the exp
\* claim of that payload: absent, a number, a number beyond the platform's
\* time_t, or a value that is no number
Credential(text, decodes, exp_kind, exp) ==
    [text |-> text, decodes |-> decodes, exp_kind |-> exp_kind, exp |-> exp]

Credentials ==
    {Credential("not-a-jwt", FALSE, "absent", 0),
     Credential("e30.W10.sig", FALSE, "absent", 0),
     Credential("h.no-exp.s", TRUE, "absent", 0),
     Credential("h.exp-2000.s", TRUE, "number", 951782400),
     Credential("h.exp-2023.s", TRUE, "number", 1700000000),
     Credential("h.exp-1e20.s", TRUE, "too_large", 0),
     Credential("h.exp-soon.s", TRUE, "text", 0)}

NoCredential == Credential("", FALSE, "absent", 0)

\* the expired_at arguments of set_token: the default "" or a given text
ExpiredAtArgs == {"", "2030-01-01 00:00:00"}

\* two decimal digits
Pad2(n) == IF n < 10 THEN "0" \o ToString(n) ELSE ToString(n)

\* datetime.fromtimestamp(ts).strftime("%Y-%m-%d %H:%M:%S") for ts >= 0, with
\* UTC as the local time zone: the civil date of the day number, then the
\* time of day
Strftime(ts) ==
    LET z == (ts \div 86400) + 719468
        era == z \div 146097
        doe == z - era * 146097
        yoe == (doe - doe \div 1460 + doe \div 36524 - doe \div 146096) \div 365
        doy == doe - (365 * yoe + yoe \div 4 - yoe \div 100)
        mp == (5 * doy + 2) \div 153
        d == doy - (153 * mp + 2) \div 5 + 1
        m == IF mp < 10 THEN mp + 3 ELSE mp - 9
        y == yoe + era * 400 + (IF m <= 2 THEN 1 ELSE 0)
        sod == ts % 86400
    IN  ToString(y) \o "-" \o Pad2(m) \o "-" \o Pad2(d) \o " " \o Pad2(sod \div 3600)
           \o ":" \o Pad2((sod % 3600) \div 60) \o ":" \o Pad2(sod % 60)

HttpCall(op, token, arg, response, outcome) ==
    [op |-> op, token |-> token, expired_at |-> arg, response |-> response,
     outcome |-> outcome]

\* SevenPaceAsyncClient.set_token(token, arg) (lines 274-286): DecodeError is
\* turned into AuthenticationError before anything is written; then the
\* header is written, and the expiry from the argument or, without one, from
\* the exp claim (0 when absent), where datetime.fromtimestamp raises
\* OverflowError or TypeError on a value it cannot take
SetToken(token, arg) ==
    IF ~token.decodes
    THEN /\ http_call' = HttpCall("set_token", token, arg, NoResponse,
                                  Raised("AuthenticationError", "invalid token"))
         /\ UNCHANGED <<headers, expired_at>>
    ELSE /\ headers' = "Bearer " \o token.text
         /\ IF arg # ""
            THEN /\ expired_at' = arg
                 /\ http_call' = HttpCall("set_token", token, arg, NoResponse,
                                          Returned(NoBody))
            ELSE CASE token.exp_kind = "too_large" ->
                        /\ http_call' = HttpCall("set_token", token, arg, NoResponse,
                                                 Raised("OverflowError", ""))
                        /\ UNCHANGED expired_at
                   [] token.exp_kind = "text" ->
                        /\ http_call' = HttpCall("set_token", token, arg, NoResponse,
                                                 Raised("TypeError", ""))
                        /\ UNCHANGED expired_at
                   [] OTHER ->
                        /\ expired_at' = Strftime(IF token.exp_kind = "absent"
                                                  THEN 0 ELSE token.exp)
                        /\ http_call' = HttpCall("set_token", token, arg, NoResponse,
                                                 Returned(NoBody))

\* one _request call: http_client.request returns `response`, _request maps
\* it; headers and expiry are only read
RequestCall(response) ==
    /\ http_call' = HttpCall("request", NoCredential, "", response, Request(response))
    /\ UNCHANGED <<headers, expired_at>>

InitHttp ==
    /\ LoopNone
    /\ RegNone
    /\ StoreNone
    /\ SocketNone
    /\ headers = ""
    /\ expired_at = ""
    /\ http_call = HttpCall("none", NoCredential, "", NoResponse, NoOutcome)

NextHttp ==
    \/ (\E token \in Credentials, arg \in ExpiredAtArgs : SetToken(token, arg))
          /\ UNCHANGED <<loopVars, regVars, storeVars, socketVars>>
    \/ (\E response \in Responses : RequestCall(response))
          /\ UNCHANGED <<loopVars, regVars, storeVars, socketVars>>

SpecHttp == InitHttp /\ [][NextHttp]_vars

\* C21: whatever response _request gets, a status of 400 or more ends in
\* APIError; a lower status with a body carrying a status_code other than 200
\* ends in APIError with the body's message; every other response is
\* answered by returning its body, without an exception.
C21_RequestMappingTotal ==
    http_call.op = "request" =>
        LET r == http_call.response
            out == http_call.outcome
            embedded == r.body.json /\ r.body.t = "object"
                           /\ "status_code" \in r.body.keys
                           /\ ~(r.body.sc_t = "int" /\ r.body.sc_n = 200)
        IN  CASE r.status_code >= 400 -> out.kind = "APIError"
              [] r.status_code < 400 /\ embedded ->
                    /\ out.kind = "APIError"
                    /\ "message" \in r.body.keys => out.message = r.body.message
              [] OTHER -> out = Returned(r.body)

\* C22: a set_token call with a token that does not decode raises
\* AuthenticationError and leaves header and expiry as they were; a call with
\* a token that decodes returns with the header set to the token and the
\* expiry set to the argument or else taken from the token.
C22_SetTokenAllOrNothing ==
    [][http_call'.op = "set_token" /\ http_call' # http_call =>
          LET c == http_call'
          IN  IF ~c.token.decodes
              THEN /\ c.outcome.kind = "AuthenticationError"
                   /\ headers' = headers
                   /\ expired_at' = expired_at
              ELSE /\ c.outcome.kind = "return"
                   /\ headers' = "Bearer " \o c.token.text
                   /\ expired_at' # ""
                   /\ c.expired_at # "" => expired_at' = c.expired_at]_vars

-----------------------------------------------------------------------------
(* The control socket: SevenMateSocketClient *)

\* the printable ASCII characters, code 32 first (the empty text stands in
\* for the grave accent, which no text here holds)
AsciiChars ==
    <<" ", "!", "\"", "#", "$", "%", "&", "'", "(", ")", "*", "+", ",", "-", ".", "/",
      "0", "1", "2", "3", "4", "5", "6", "7", "8", "9", ":", ";", "<", "=", ">", "?",
      "@", "A", "B", "C", "D", "E", "F", "G", "H", "I", "J", "K", "L", "M", "N", "O",
      "P", "Q", "R", "S", "T", "U", "V", "W", "X", "Y", "Z", "[", "\\", "]", "^", "_",
      "", "a", "b", "c", "d", "e", "f", "g", "h", "i", "j", "k", "l", "m", "n", "o",
      "p", "q", "r", "s", "t", "u", "v", "w", "x", "y", "z", "{", "|", "}", "~">>

\* the code of each of them
AsciiCode ==
    [ch \in {AsciiChars[i] : i \in DOMAIN AsciiChars} |->
        31 + (CHOOSE i \in DOMAIN AsciiChars : AsciiChars[i] = ch)]

\* the UTF-8 bytes of a text (all texts here are ASCII)
Utf8(text) == [i \in DOMAIN text |-> AsciiCode[text[i]]]

\* the value of each hex digit, lower or upper case
HexValue ==
    LET lower == <<"0", "1", "2", "3", "4", "5", "6", "7", "8", "9", "a", "b", "c", "d",
                   "e", "f">>
        upper == <<"A", "B", "C", "D", "E", "F">>
    IN  [ch \in {lower[i] : i \in DOMAIN lower} \cup {upper[i] : i \in DOMAIN upper} |->
            IF \E i \in DOMAIN lower : lower[i] = ch
            THEN (CHOOSE i \in DOMAIN lower : lower[i] = ch) - 1
            ELSE (CHOOSE i \in DOMAIN upper : upper[i] = ch) + 9]

\* bytes.fromhex(text) (line 158): one byte per pair of hex digits;
\* ValueError (ok FALSE) on an odd number of digits or a character that is no
\* hex digit
FromHex(text) ==
    IF Len(text) % 2 = 0 /\ \A i \in DOMAIN text : text[i] \in DOMAIN HexValue
    THEN [ok |-> TRUE,
          bytes |-> [i \in 1 .. (Len(text) \div 2) |->
                        16 * HexValue[text[2 * i - 1]] + HexValue[text[2 * i]]]]
    ELSE [ok |-> FALSE, bytes |-> <<>>]

\* a ^ b on bytes
RECURSIVE Xor(_, _)
Xor(a, b) ==
    IF a = 0 /\ b = 0 THEN 0
    ELSE (((a % 2) + (b % 2)) % 2) + 2 * Xor(a \div 2, b \div 2)

\* the loop of lines 163-164 from i on (i counts from 0 as in the code):
\* auth_bytes[i] = key_bytes[i] ^ key_bytes[i + 1]
RECURSIVE XorLoop(_, _, _)
XorLoop(i, key_bytes, auth_bytes) ==
    IF i >= Len(key_bytes) - 1 THEN auth_bytes
    ELSE XorLoop(i + 1, key_bytes,
                 [auth_bytes EXCEPT ![i + 1] = Xor(key_bytes[i + 1], key_bytes[i + 2])])

\* a faulty variant of AuthBytes whose last byte is key_bytes[15] ^ key_bytes[0]
AuthBytesLastFromKey(key_bytes) ==
    LET auth_bytes == XorLoop(0, key_bytes, [i \in 1 .. 16 |-> 0])
    IN  [auth_bytes EXCEPT ![16] = Xor(key_bytes[16], key_bytes[1])]

\* lines 162-165: bytearray(16), the loop, then
\* auth_bytes[15] = key_bytes[15] ^ auth_bytes[0]
AuthBytes(key_bytes) ==
    LET auth_bytes == XorLoop(0, key_bytes, [i \in 1 .. 16 |-> 0])
    IN  [auth_bytes EXCEPT ![16] = Xor(key_bytes[16], auth_bytes[1])]

\* the base64 alphabet
B64Chars ==
    <<"A", "B", "C", "D", "E", "F", "G", "H", "I", "J", "K", "L", "M", "N", "O", "P",
      "Q", "R", "S", "T", "U", "V", "W", "X", "Y", "Z", "a", "b", "c", "d", "e", "f",
      "g", "h", "i", "j", "k", "l", "m", "n", "o", "p", "q", "r", "s", "t", "u", "v",
      "w", "x", "y", "z", "0", "1", "2", "3", "4", "5", "6", "7", "8", "9", "+", "/">>

\* base64.b64encode(bytes).decode('utf-8') (line 167): four characters per
\* three bytes, the last group padded with "="
RECURSIVE B64Encode(_)
B64Encode(bytes) ==
    CASE Len(bytes) = 0 -> <<>>
      [] Len(bytes) = 1 ->
            <<B64Chars[bytes[1] \div 4 + 1], B64Chars[(bytes[1] % 4) * 16 + 1], "=", "=">>
      [] Len(bytes) = 2 ->
            <<B64Chars[bytes[1] \div 4 + 1],
              B64Chars[(bytes[1] % 4) * 16 + bytes[2] \div 16 + 1],
              B64Chars[(bytes[2] % 16) * 4 + 1], "=">>
      [] OTHER ->
            <<B64Chars[bytes[1] \div 4 + 1],
              B64Chars[(bytes[1] % 4) * 16 + bytes[2] \div 16 + 1],
              B64Chars[(bytes[2] % 16) * 4 + bytes[3] \div 64 + 1],
              B64Chars[(bytes[3] % 64) + 1]>>
               \o B64Encode(SubSeq(bytes, 4, Len(bytes)))

\* SevenMateSocketClient._calculate_auth_code (lines 155-170): every
\* exception, the ValueError of a key that is not 16 bytes included, is
\* caught and None returned (ok FALSE)
CalculateAuthCode(key) ==
    IF FromHex(key).ok /\ Len(FromHex(key).bytes) = 16
    THEN [ok |-> TRUE, code |-> B64Encode(AuthBytes(FromHex(key).bytes))]
    ELSE [ok |-> FALSE, code |-> <<>>]

\* the socket keys drawn: five of 16 bytes, one of 15, one of 17, one with an
\* odd number of digits, one with characters that are no hex digits
SocketKeys ==
    {<<"0", "0", "0", "0", "0", "0", "0", "0", "0", "0", "0", "0", "0", "0", "0", "0",
        "0", "0", "0", "0", "0", "0", "0", "0", "0", "0", "0", "0", "0", "0", "0", "0">>,
     <<"0", "0", "0", "1", "0", "2", "0", "3", "0", "4", "0", "5", "0", "6", "0", "7",
        "0", "8", "0", "9", "0", "a", "0", "b", "0", "c", "0", "d", "0", "e", "0", "f">>,
     <<"f", "f", "f", "f", "f", "f", "f", "f", "f", "f", "f", "f", "f", "f", "f", "f",
        "f", "f", "f", "f", "f", "f", "f", "f", "f", "f", "f", "f", "f", "f", "f", "f">>,
     <<"a", "1", "b", "2", "c", "3", "d", "4", "e", "5", "f", "6", "0", "7", "1", "8",
        "2", "9", "3", "a", "4", "b", "5", "c", "6", "d", "7", "e", "8", "f", "9", "0">>,
     <<"D", "E", "A", "D", "B", "E", "E", "F", "0", "0", "1", "1", "2", "2", "3", "3",
        "4", "4", "5", "5", "6", "6", "7", "7", "8", "8", "9", "9", "A", "A", "B", "B">>,
     <<"0", "0", "0", "1", "0", "2", "0", "3", "0", "4", "0", "5", "0", "6", "0", "7",
        "0", "8", "0", "9", "0", "a", "0", "b", "0", "c", "0", "d", "0", "e">>,
     <<"0", "0", "0", "1", "0", "2", "0", "3", "0", "4", "0", "5", "0", "6", "0", "7",
        "0", "8", "0", "9", "0", "a", "0", "b", "0", "c", "0", "d", "0", "e", "0", "f",
        "1", "0">>,
     <<"0", "0", "0", "1", "0", "2", "0", "3", "0", "4", "0", "5", "0", "6", "0", "7",
        "0", "8", "0", "9", "0", "a", "0", "b", "0", "c", "0", "d", "0", "e", "0">>,
     <<"z", "z", "0", "1", "0", "2", "0", "3", "0", "4", "0", "5", "0", "6", "0", "7",
        "0", "8", "0", "9", "0", "a", "0", "b", "0", "c", "0", "d", "0", "e", "0", "f">>}

\* the values handed to msgpack.packb: None, a bool or small int (n), a str
\* (chars), or a dict with str keys (items, in insertion order)
PNil == [t |-> "nil", chars |-> <<>>, n |-> 0, items |-> <<>>]
PBool(b) == [t |-> "bool", chars |-> <<>>, n |-> IF b THEN 1 ELSE 0, items |-> <<>>]
PInt(n) == [t |-> "int", chars |-> <<>>, n |-> n, items |-> <<>>]
PStr(chars) == [t |-> "str", chars |-> chars, n |-> 0, items |-> <<>>]
PMap(items) == [t |-> "map", chars |-> <<>>, n |-> 0, items |-> items]
Item(k, v) == [k |-> k, v |-> v]

\* msgpack.packb(value, use_bin_type=True) (line 174) for the values drawn:
\* nil c0, false c2, true c3, positive fixint, uint8 cc, uint16 cd, fixstr
\* a0+len, str8 d9, fixmap 80+count followed by each key and value
RECURSIVE Packb(_)
RECURSIVE PackItems(_)
Packb(value) ==
    CASE value.t = "nil" -> <<192>>
      [] value.t = "bool" -> <<194 + value.n>>
      [] value.t = "int" ->
            IF value.n < 128 THEN <<value.n>>
            ELSE IF value.n < 256 THEN <<204, value.n>>
            ELSE <<205, value.n \div 256, value.n % 256>>
      [] value.t = "str" ->
            IF Len(value.chars) < 32 THEN <<160 + Len(value.chars)>> \o Utf8(value.chars)
            ELSE <<217, Len(value.chars)>> \o Utf8(value.chars)
      [] value.t = "map" -> <<128 + Len(value.items)>> \o PackItems(value.items)
PackItems(items) ==
    IF items = <<>> THEN <<>>
    ELSE Packb(PStr(items[1].k)) \o Packb(items[1].v) \o PackItems(Tail(items))

\* a faulty variant of Pack32 that writes the least significant byte first
Pack32LittleEndian(n) ==
    <<n % 256, (n \div 256) % 256, (n \div 65536) % 256, (n \div 16777216) % 256>>

\* struct.pack('>I', n) for 0 <= n < 2^32: four bytes, most significant first
Pack32(n) ==
    <<(n \div 16777216) % 256, (n \div 65536) % 256, (n \div 256) % 256, n % 256>>

\* the packet of _create_packet (lines 174-180): the header of message id,
\* action id and payload length, then the packed payload
PacketOf(action_id, packed_data) ==
    Pack32(msg_id_counter) \o Pack32(action_id) \o Pack32(Len(packed_data)) \o packed_data
Packet(action_id, data_payload) == PacketOf(action_id, Packb(data_payload))

\* a faulty variant of CreatePacket that leaves the counter as it is
CreatePacketNoIncrement(action_id, data_payload) ==
    /\ frames' = Append(frames, Packet(action_id, data_payload))
    /\ msg_id_counter' = msg_id_counter

\* SevenMateSocketClient._create_packet (lines 172-180)
CreatePacket(action_id, data_payload) ==
    /\ frames' = Append(frames, Packet(action_id, data_payload))
    /\ msg_id_counter' = msg_id_counter + 1

\* the payload of the authenticate frame (line 198)
AuthPayload(auth_code) ==
    PMap(<<Item(<<"d", "a", "t", "a">>,
                PMap(<<Item(<<"a", "u", "t", "h", "_", "c", "o", "d", "e">>,
                    PStr(auth_code))>>))>>)

\* the "headers" entry of the unlock and lock payloads (lines 206-214)
PayloadHeaders ==
    PMap(<<Item(<<"A", "c", "c", "e", "p", "t">>,
                PStr(<<"a", "p", "p", "l", "i", "c", "a", "t", "i", "o", "n", "/", "v",
                    "n", "d", ".", "w", "s", ".", "v", "1", "+", "j", "s", "o", "n">>)),
           Item(<<"C", "l", "i", "e", "n", "t">>,
                PStr(<<"W", "e", "c", "h", "a", "t", "_", "M", "i", "n", "i", "A", "P", "P">>)),
           Item(<<"P", "h", "o", "n", "e", "-", "M", "o", "d", "e", "l">>,
                PStr(<<"M", "a", "c", "1", "4", ",", "1", "5">>)),
           Item(<<"P", "h", "o", "n", "e", "-", "B", "r", "a", "n", "d">>,
                PStr(<<"a", "p", "p", "l", "e">>)),
           Item(<<"P", "h", "o", "n", "e", "-", "S", "y", "s", "t", "e", "m">>,
                PStr(<<"A", "n", "d", "r", "o", "i", "d">>)),
           Item(<<"P", "h", "o", "n", "e", "-", "S", "y", "s", "t", "e", "m", "-", "V",
               "e", "r", "s", "i", "o", "n">>,
                PStr(<<"M", "a", "c", " ", "O", "S", " ", "X", " ", "1", "5", ".", "6",
                    ".", "1", " ", "a", "r", "m", "6", "4">>)),
           Item(<<"A", "p", "p", "-", "V", "e", "r", "s", "i", "o", "n">>,
                PStr(<<"1", ".", "3", ".", "1", "2", "9">>))>>)

\* the sid the client was built with, and the values str(uuid.uuid4()) may give
UserId == PStr(<<"4", "2">>)
Uuids ==
    {<<"3", "f", "2", "b", "8", "c", "1", "e", "-", "9", "d", "4", "a", "-", "4", "c", "7",
        "b", "-", "8", "e", "2", "1", "-", "5", "a", "6", "f", "0", "b", "9", "c", "7",
            "d", "1", "0">>}

\* "scene" of both payloads
Scene(fn) ==
    PMap(<<Item(<<"f", "n">>, PStr(fn)),
           Item(<<"s", "h", "o", "w", "M", "e", "s", "s", "a", "g", "e">>, PBool(TRUE))>>)

\* the payload of unlock_car (lines 203-218)
UnlockPayload(fn) ==
    PMap(<<Item(<<"u", "s", "e", "r", "_", "i", "d">>, UserId),
           Item(<<"s", "c", "e", "n", "e">>, Scene(fn)),
           Item(<<"h", "e", "a", "d", "e", "r", "s">>, PayloadHeaders),
           Item(<<"d", "a", "t", "a">>,
                PMap(<<Item(<<"a", "c", "t", "i", "o", "n", "_", "t", "y", "p", "e">>,
                    PInt(1))>>))>>)

\* the payload of temporary_lock_car (lines 223-239)
TemporaryLockPayload(fn) ==
    PMap(<<Item(<<"u", "s", "e", "r", "_", "i", "d">>, UserId),
           Item(<<"s", "c", "e", "n", "e">>, Scene(fn)),
           Item(<<"h", "e", "a", "d", "e", "r", "s">>, PayloadHeaders),
           Item(<<"d", "a", "t", "a">>,
                PMap(<<Item(<<"b", "a", "c", "k", "_", "t", "y", "p", "e">>, PNil),
                       Item(<<"a", "c", "t", "i", "o", "n", "_", "t", "y", "p", "e">>,
                           PInt(1))>>))>>)

\* the last call on the socket client: what was called, how it ended, and of
\* a packet or auth code call the arguments and the value returned
WsCall(op, outcome, action_id, data_payload, packet, code) ==
    [op |-> op, outcome |-> outcome, action_id |-> action_id,
     data_payload |-> data_payload, packet |-> packet, code |-> code]

-----------------------------------------------------------------------------
(* The frame specification: _calculate_auth_code and _create_packet applied
   to keys, counters, action ids and payloads drawn from bounded sets *)

\* how many packets a behaviour of the frame specification creates
MaxPackets == 2

\* the values of msg_id_counter the frame specification starts from: the
\* client has created that many packets less one before
FrameMsgIds == {1, 5, 255, 65536, 2147483645}

\* the action ids handed to _create_packet; -1 is one struct.pack refuses
FrameActionIds == {0 - 1, 0, 1, 256, 3002, 3003, 2147483647}

\* the payloads handed to _create_packet
FramePayloads ==
    {PMap(<<>>), PNil, AuthPayload(B64Encode([i \in 1 .. 16 |-> 255]))}
        \cup {UnlockPayload(fn) : fn \in Uuids}

\* one call of _calculate_auth_code
CalculateAuthCodeCall ==
    /\ ws_call' = WsCall("_calculate_auth_code",
                         IF CalculateAuthCode(socket_key).ok THEN "return" ELSE "None",
                         0, PNil, <<>>, CalculateAuthCode(socket_key).code)
    /\ UNCHANGED <<socket_key, websocket, msg_id_counter, ws_pc, frames, conn_start,
                   slept, server_auth>>

\* one call of _create_packet: struct.pack raises struct.error on a negative
\* number, before the counter is touched (line 178)
CreatePacketCall(action_id, data_payload) ==
    /\ Len(frames) < MaxPackets
    /\ IF action_id < 0
       THEN /\ ws_call' = WsCall("_create_packet", "struct.error", action_id,
                                 data_payload, <<>>, <<>>)
            /\ UNCHANGED <<msg_id_counter, frames>>
       ELSE /\ CreatePacket(action_id, data_payload)
            /\ ws_call' = WsCall("_create_packet", "return", action_id, data_payload,
                                 Packet(action_id, data_payload), <<>>)
    /\ UNCHANGED <<socket_key, websocket, ws_pc, conn_start, slept, server_auth>>

InitFrame ==
    /\ LoopNone
    /\ RegNone
    /\ StoreNone
    /\ HttpNone
    /\ socket_key \in SocketKeys
    /\ websocket = "None"
    /\ msg_id_counter \in FrameMsgIds
    /\ ws_pc = "idle"
    /\ frames = <<>>
    /\ conn_start = 0
    /\ ws_call = NoWsCall
    /\ slept = 0
    /\ server_auth = "none"

NextFrame ==
    \/ CalculateAuthCodeCall /\ UNCHANGED <<loopVars, regVars, storeVars, httpVars>>
    \/ (\E action_id \in FrameActionIds, data_payload \in FramePayloads :
            CreatePacketCall(action_id, data_payload))
          /\ UNCHANGED <<loopVars, regVars, storeVars, httpVars>>

SpecFrame == InitFrame /\ [][NextFrame]_vars

\* the value of a base64 character, and the bytes of a padded base64 text of
\* 24 characters (16 bytes), as the claim reads an auth code
B64Value(ch) == (CHOOSE i \in DOMAIN B64Chars : B64Chars[i] = ch) - 1
B64Decode16(code) ==
    [i \in 1 .. 16 |->
        LET g == 4 * ((i - 1) \div 3)
            v(j) == B64Value(code[g + j])
        IN  CASE (i - 1) % 3 = 0 -> v(1) * 4 + (v(2) \div 16)
              [] (i - 1) % 3 = 1 -> (v(2) % 16) * 16 + (v(3) \div 4)
              [] OTHER -> (v(3) % 4) * 64 + v(4)]

\* C23: for a key of 16 bytes the auth code is the base64 text of the 16
\* bytes out with out[i] = key[i] XOR key[i+1] for i = 0..14 and
\* out[15] = key[15] XOR out[0]: 24 characters ending in "==" that decode to
\* out, whatever the counter and the packets created so far.
C23_AuthCodeDerivation ==
    (ws_call.op = "_calculate_auth_code" /\ FromHex(socket_key).ok
        /\ Len(FromHex(socket_key).bytes) = 16) =>
       LET key == FromHex(socket_key).bytes
           first == Xor(key[1], key[2])
           out == [i \in 1 .. 16 |-> IF i < 16 THEN Xor(key[i], key[i + 1])
                                     ELSE Xor(key[16], first)]
           code == ws_call.code
       IN  /\ ws_call.outcome = "return"
           /\ Len(code) = 24
           /\ code[23] = "=" /\ code[24] = "="
           /\ \A i \in 1 .. 22 : \E j \in DOMAIN B64Chars : B64Chars[j] = code[i]
           /\ B64Decode16(SubSeq(code, 1, 22) \o <<"A", "A">>) = out

\* C23, witness: the auth code of the key 000102...0f, as CPython computes it
C23_Witness ==
    /\ ws_call.op = "_calculate_auth_code"
    /\ socket_key = <<"0", "0", "0", "1", "0", "2", "0", "3", "0", "4", "0", "5", "0", "6",
                      "0", "7", "0", "8", "0", "9", "0", "a", "0", "b", "0", "c", "0", "d",
                      "0", "e", "0", "f">>
    /\ ws_call.code = <<"A", "Q", "M", "B", "B", "w", "E", "D", "A", "Q", "8", "B", "A",
                        "w", "E", "H", "A", "Q", "M", "B", "D", "g", "=", "=">>
    /\ msg_id_counter > 1

\* the unsigned 32-bit big-endian number at bytes k .. k+3 of a packet
U32(packet, k) ==
    packet[k] * 16777216 + packet[k + 1] * 65536 + packet[k + 2] * 256 + packet[k + 3]

\* C24: a packet created for a message id, an action id that is an unsigned
\* 32-bit number and a payload is 12 header bytes followed by the packed
\* payload; read as three big-endian unsigned 32-bit numbers the header gives
\* the message id, the action id and the number of bytes that follow it.
C24_FrameRoundTrip ==
    [][(ws_call'.op = "_create_packet" /\ ws_call'.action_id >= 0
           /\ <<ws_call, frames>>' # <<ws_call, frames>>) =>
          LET p == ws_call'.packet
          IN  /\ ws_call'.outcome = "return"
              /\ frames' = Append(frames, p)
              /\ Len(p) >= 12
              /\ \A k \in DOMAIN p : p[k] \in 0 .. 255
              /\ U32(p, 1) = msg_id_counter
              /\ U32(p, 5) = ws_call'.action_id
              /\ U32(p, 9) = Len(p) - 12
              /\ SubSeq(p, 13, Len(p)) = Packb(ws_call'.data_payload)]_vars

\* C24, witness: message id 5, action 3002 and the empty dict give the header
\* 00000005 00000bba 00000001 and the one byte 80 of the payload
C24_Witness ==
    /\ ws_call.op = "_create_packet"
    /\ ws_call.packet = <<0, 0, 0, 5, 0, 0, 11, 186, 0, 0, 0, 1, 128>>
    /\ msg_id_counter = 6

-----------------------------------------------------------------------------
(* The socket specification: one SevenMateSocketClient and the calls on it,
   connect() stepped at its awaits *)

\* how many packets a behaviour of the socket specification creates
MaxFrames == 3

\* a faulty variant of SendPacket that does not look at the connection
SendPacketUnchecked(state, op, action_id, data_payload) ==
    /\ CreatePacket(action_id, data_payload)
    /\ ws_call' = WsCall(op, "return", action_id, data_payload,
                         Packet(action_id, data_payload), <<>>)

\* a variant of SendPacket that sends an action frame only on a connection
\* the server has authenticated
SendPacketAfterAck(state, op, action_id, data_payload) ==
    IF state # "OPEN" \/ (action_id # 1 /\ server_auth # "done")
    THEN /\ ws_call' = WsCall(op, "ConnectionError", action_id, data_payload, <<>>, <<>>)
         /\ UNCHANGED <<msg_id_counter, frames>>
    ELSE /\ CreatePacket(action_id, data_payload)
         /\ ws_call' = WsCall(op, "return", action_id, data_payload,
                              Packet(action_id, data_payload), <<>>)

\* SevenMateSocketClient._send_packet called by `op` while self.websocket is
\* in `state` (lines 182-188): ConnectionError before any packet is created
\* when there is no connection or it is not open, else the packet is created
\* and handed to websocket.send
SendPacket(state, op, action_id, data_payload) ==
    IF state # "OPEN"
    THEN /\ ws_call' = WsCall(op, "ConnectionError", action_id, data_payload, <<>>, <<>>)
         /\ UNCHANGED <<msg_id_counter, frames>>
    ELSE /\ CreatePacket(action_id, data_payload)
         /\ ws_call' = WsCall(op, "return", action_id, data_payload,
                              Packet(action_id, data_payload), <<>>)

\* connect() is called and awaits websockets.connect (line 192)
ConnectStarts ==
    /\ ws_pc = "idle"
    /\ Len(frames) < MaxFrames
    /\ ws_pc' = "connecting"
    /\ ws_call' = WsCall("connect", "pending", 0, PNil, <<>>, <<>>)
    /\ UNCHANGED <<socket_key, websocket, msg_id_counter, frames, conn_start,
                   slept, server_auth>>

\* a faulty variant of ConnectReturns that sends no authenticate frame
ConnectReturnsNoAuth(r) ==
    /\ ws_pc = "connecting"
    /\ ws_pc' = "idle"
    /\ IF r = "OSError"
       THEN /\ ws_call' = WsCall("connect", "OSError", 0, PNil, <<>>, <<>>)
            /\ UNCHANGED <<websocket, msg_id_counter, frames, conn_start,
                           slept, server_auth>>
       ELSE /\ conn_start' = Len(frames)
            /\ websocket' = "OPEN"
            /\ ws_call' = WsCall("connect", "return", 0, PNil, <<>>, <<>>)
            /\ slept' = 0
            /\ server_auth' = "none"
            /\ UNCHANGED <<msg_id_counter, frames>>
    /\ UNCHANGED socket_key

\* websockets.connect returns the open connection or raises (line 192); with
\* a connection the auth code is computed: without one the connection is
\* closed and AuthenticationError raised (lines 194-196), with one the
\* authenticate frame is sent on the connection just opened (lines 198-199)
\* and connect() returns without reading from the connection; the server now
\* has the frame of a connection it has not authenticated yet
ConnectReturns(r) ==
    /\ ws_pc = "connecting"
    /\ ws_pc' = "idle"
    /\ IF r = "OSError"
       THEN /\ ws_call' = WsCall("connect", "OSError", 0, PNil, <<>>, <<>>)
            /\ UNCHANGED <<websocket, msg_id_counter, frames, conn_start,
                           slept, server_auth>>
       ELSE /\ conn_start' = Len(frames)
            /\ slept' = 0
            /\ IF ~CalculateAuthCode(socket_key).ok
               THEN /\ websocket' = "CLOSED"
                    /\ ws_call' = WsCall("connect", "AuthenticationError", 0, PNil,
                                         <<>>, <<>>)
                    /\ server_auth' = "none"
                    /\ UNCHANGED <<msg_id_counter, frames>>
               ELSE /\ Len(frames) < MaxFrames
                    /\ websocket' = "OPEN"
                    /\ server_auth' = "received"
                    /\ SendPacket("OPEN", "connect", 1,
                                  AuthPayload(CalculateAuthCode(socket_key).code))
    /\ UNCHANGED socket_key

\* SevenMateSocketClient.unlock_car (lines 201-219)
UnlockCar(fn) ==
    /\ websocket = "OPEN" => Len(frames) < MaxFrames
    /\ SendPacket(websocket, "unlock_car", 3002, UnlockPayload(fn))
    /\ UNCHANGED <<socket_key, websocket, ws_pc, conn_start, slept, server_auth>>

\* SevenMateSocketClient.temporary_lock_car (lines 221-240)
TemporaryLockCar(fn) ==
    /\ websocket = "OPEN" => Len(frames) < MaxFrames
    /\ SendPacket(websocket, "temporary_lock_car", 3003, TemporaryLockPayload(fn))
    /\ UNCHANGED <<socket_key, websocket, ws_pc, conn_start, slept, server_auth>>

\* SevenMateSocketClient.close (lines 242-245): a connection, if there is one,
\* is closed, and with it whatever the server did for it
SocketClose ==
    /\ websocket' = (IF websocket = "None" THEN "None" ELSE "CLOSED")
    /\ ws_call' = WsCall("close", "return", 0, PNil, <<>>, <<>>)
    /\ server_auth' = "none"
    /\ UNCHANGED <<socket_key, msg_id_counter, ws_pc, frames, conn_start, slept>>

\* the peer closes the connection or the connection is lost
PeerCloses ==
    /\ websocket = "OPEN"
    /\ websocket' = "CLOSED"
    /\ server_auth' = "none"
    /\ UNCHANGED <<socket_key, msg_id_counter, ws_pc, frames, conn_start, ws_call, slept>>

\* asyncio.sleep(0.2) of the wrappers SevenPaceAsyncClient.unlock_car and
\* temporary_lock_car (lines 391, 402), in tenths of a second
SleepTicks == 2

\* a tenth of a second of the sleep that follows a connect() that returned
\* passes; nothing is read from the connection meanwhile
SleepTick ==
    /\ ws_pc = "idle"
    /\ Len(frames) > conn_start
    /\ slept < SleepTicks
    /\ slept' = slept + 1
    /\ ws_call' = WsCall("sleep", "return", 0, PNil, <<>>, <<>>)
    /\ UNCHANGED <<socket_key, websocket, msg_id_counter, ws_pc, frames, conn_start,
                   server_auth>>

\* the server finishes the authentication of the connection, at a time of
\* its own; the client does not learn of it (no line of the client reads
\* from the connection)
ServerAuthenticates ==
    /\ server_auth = "received"
    /\ server_auth' = "done"
    /\ UNCHANGED <<socket_key, websocket, msg_id_counter, ws_pc, frames, conn_start,
                   ws_call, slept>>

InitSocket ==
    /\ LoopNone
    /\ RegNone
    /\ StoreNone
    /\ HttpNone
    /\ socket_key \in SocketKeys
    /\ websocket = "None"
    /\ msg_id_counter = 1
    /\ ws_pc = "idle"
    /\ frames = <<>>
    /\ conn_start = 0
    /\ ws_call = NoWsCall
    /\ slept = 0
    /\ server_auth = "none"

NextSocket ==
    \/ ConnectStarts /\ UNCHANGED <<loopVars, regVars, storeVars, httpVars>>
    \/ (\E r \in {"ok", "OSError"} : ConnectReturns(r))
          /\ UNCHANGED <<loopVars, regVars, storeVars, httpVars>>
    \/ (\E fn \in Uuids : UnlockCar(fn))
          /\ UNCHANGED <<loopVars, regVars, storeVars, httpVars>>
    \/ (\E fn \in Uuids : TemporaryLockCar(fn))
          /\ UNCHANGED <<loopVars, regVars, storeVars, httpVars>>
    \/ SocketClose /\ UNCHANGED <<loopVars, regVars, storeVars, httpVars>>
    \/ PeerCloses /\ UNCHANGED <<loopVars, regVars, storeVars, httpVars>>
    \/ SleepTick /\ UNCHANGED <<loopVars, regVars, storeVars, httpVars>>
    \/ ServerAuthenticates /\ UNCHANGED <<loopVars, regVars, storeVars, httpVars>>

SpecSocket == InitSocket /\ [][NextSocket]_vars

\* C25: the packets a socket client has created carry the message ids 1, 2,
\* 3, ... in the order of their creation, and the counter is one more than
\* their number.
C25_MessageIdsCountUp ==
    /\ msg_id_counter = Len(frames) + 1
    /\ \A k \in DOMAIN frames : U32(frames[k], 1) = k

\* C25, witness: three packets were created over two connections:
\* authenticate, unlock, and authenticate again
C25_Witness ==
    /\ Len(frames) = 3
    /\ conn_start = 2
    /\ U32(frames[1], 5) = 1
    /\ U32(frames[2], 5) = 3002
    /\ U32(frames[3], 5) = 1

\* C26: an unlock or lock call made while the client has no connection or one
\* that is not open ends in ConnectionError and leaves packets and counter as
\* they were; packets are created only by a call on an open connection or by
\* the connect that opens one.
C26_SendNeedsOpenSocket ==
    [][/\ (ws_call'.op \in {"unlock_car", "temporary_lock_car"}
             /\ websocket # "OPEN"
             /\ <<ws_call, frames, msg_id_counter>>' # <<ws_call, frames, msg_id_counter>>) =>
             /\ ws_call'.outcome = "ConnectionError"
             /\ frames' = frames
             /\ msg_id_counter' = msg_id_counter
       /\ <<frames, msg_id_counter>>' # <<frames, msg_id_counter>> =>
             /\ websocket' = "OPEN"
             /\ websocket = "OPEN" \/ ws_call'.op = "connect"]_vars

\* C26, witness: after frames were sent the connection is closed and an
\* unlock call has ended in ConnectionError
C26_Witness ==
    /\ ws_call.op = "unlock_car"
    /\ ws_call.outcome = "ConnectionError"
    /\ websocket = "CLOSED"
    /\ Len(frames) = 2
    /\ msg_id_counter = 3

\* C27: the first packet sent on every connection is the authenticate frame
\* (action id 1) and every unlock or lock frame is sent on a connection after
\* its authenticate frame; with a key no auth code can be derived from, no
\* connection is left open and no frame is ever sent.
C27_AuthenticateFirst ==
    /\ [](/\ Len(frames) > conn_start => U32(frames[conn_start + 1], 5) = 1
          /\ ~CalculateAuthCode(socket_key).ok => (frames = <<>> /\ websocket # "OPEN"))
    /\ [][frames' # frames =>
             /\ Len(frames') = Len(frames) + 1
             /\ IF conn_start' # conn_start \/ Len(frames) = conn_start
                THEN /\ conn_start' = Len(frames)
                     /\ U32(frames'[Len(frames')], 5) = 1
                ELSE /\ U32(frames'[Len(frames')], 5) \in {3002, 3003}
                     /\ U32(frames[conn_start + 1], 5) = 1]_vars

\* C27, witness: with a key of 15 bytes connect has ended in
\* AuthenticationError and the unlock call after it in ConnectionError
C27_Witness ==
    /\ Len(socket_key) = 30
    /\ websocket = "CLOSED"
    /\ ws_call.op = "unlock_car"
    /\ ws_call.outcome = "ConnectionError"
    /\ frames = <<>>

-----------------------------------------------------------------------------
(* Claims about the end of a run of _execute_task and the periodic store *)

\* the fields of a stored definition other than the two the finally block
\* of _execute_task writes
OtherFields(t) == [k \in DOMAIN t \ {"last_run_time", "last_run_status"} |-> t[k]]

\* C31: every completed run of _execute_task for a definition gives the
\* stored definition with the same id, if it is still stored, the time and
\* the outcome of the run and writes the store to the file; it changes no
\* field of any other definition and neither adds nor removes a definition,
\* so a definition removed while its run was in flight is not put back
C31_ExecStampsOnlyItsDefinition ==
    [][last_call'.op = "exec" =>
          LET id == last_call'.id
          IN  /\ Len(tasks') = Len(tasks)
              /\ \A n \in DOMAIN tasks :
                    /\ OtherFields(tasks'[n]) = OtherFields(tasks[n])
                    /\ IF tasks[n].id = id
                       THEN /\ tasks'[n].last_run_time \in Clock
                            /\ tasks'[n].last_run_status = execs[id].status
                       ELSE tasks'[n] = tasks[n]
              /\ file' = SaveTasksToFile(tasks')
              /\ LoadTasksFromFile(file') = tasks']_vars

\* a run has just ended and stamped its definition while another stored
\* definition has never run
C31_Witness ==
    /\ last_call.op = "exec"
    /\ \E n, m \in DOMAIN tasks :
          /\ tasks[n].id = last_call.id
          /\ tasks[n].last_run_time \in Clock
          /\ tasks[m].id # last_call.id
          /\ tasks[m].last_run_time = "None"

\* C37: in every state the add, update and remove calls reach, the calls
\* that raise included, a definition is stored exactly when a trigger with
\* its id is armed, and the armed trigger has the stored cron expression
C37_StoredIffArmed ==
    scheduler = "running" =>
        /\ \A n \in DOMAIN tasks : Job(tasks[n].id, tasks[n].cron) \in jobs
        /\ \A j \in jobs : \E n \in DOMAIN tasks :
              tasks[n].id = j.id /\ tasks[n].cron = j.cron

\* C38: once remove_task has returned for a definition, no ReservationTask
\* is created on behalf of that definition any more, not even by a run of
\* _execute_task that was in flight when the definition was removed: every
\* run that appends a task does so for a definition that is still stored
C38_NoLoopAfterRemove ==
    [][(last_call'.op = "walk" /\ task_manager' # task_manager) =>
          \E n \in DOMAIN tasks : tasks[n].id = last_call'.id]_vars

-----------------------------------------------------------------------------
(* Claims about termination and stopping of one loop *)

FinalStatuses == {"completed", "stopped", "failed"}

\* C33: every loop whose run() has been started eventually leaves running
\* and has one of the statuses completed, stopped, failed, provided every
\* remote call and sleep it awaits is eventually over; whatever the remote
\* calls answer and whether or not set_token accepts the token at the start
C33_RunReachesFinalStatus ==
    (pc # "pending") ~> (status \in FinalStatuses)

\* C35: when stop() was called on a loop that was still pending, run()
\* issues no order_car call, leaves the counter at 0, and ends with the
\* status stopped
C35_StopWhilePendingYieldsStopped ==
    "stop_pending" \in seen =>
        /\ order_calls = 0
        /\ current_loop = 0
        /\ pc = "done" => status = "stopped"

\* C34: once stop() has been called the loop begins no order_car and no
\* back_car call any more; a loop that is stopped in the hold window or in
\* the wait between two return attempts leaves that place for the end of
\* run() only, without a successful return in that pass
C34_NoNewCallAfterStop ==
    [][stop_event =>
          /\ order_calls' = order_calls
          /\ back_calls' = back_calls
          /\ (pc \in {"hold", "retry_wait"} /\ pc' # pc) =>
                (pc' = "close" /\ ~return_successful')]_vars

\* a run stopped in the wait after its first failed return attempt has ended
C34_Witness ==
    /\ pc = "done"
    /\ seen = {"return_failed", "stop_running"}
    /\ order_calls = 1
    /\ back_calls = 1
    /\ ~return_successful

-----------------------------------------------------------------------------
(* Concurrent create requests without scheduler runs (specification SpecCreate) *)

\* create requests of one burst
MaxRequests == 3
BurstSlots == 1 .. MaxRequests

\* POST /api/tasks arrives while no request of the burst has been answered
\* yet, for the account and the car of the requests already in flight
BurstRequest(s, u, car) ==
    /\ creates[s].pc = "idle"
    /\ \A t \in BurstSlots :
          /\ creates[t].pc # "answered"
          /\ creates[t].pc = "get_user_info" =>
                (creates[t].user_id = u /\ creates[t].car_number = car)
    /\ CreateRequest(s, u, car)

\* an empty registry, no request yet, no scan definition stored
InitCreate ==
    /\ LoopNone
    /\ StoreNone
    /\ HttpNone
    /\ SocketNone
    /\ task_manager = [u \in Users |-> <<>>]
    /\ tasks = <<>>
    /\ creates = [s \in BurstSlots |-> IdleCreate]
    /\ execs = <<>>

NextCreate ==
    \/ (\E s \in BurstSlots, u \in Users, car \in Cars : BurstRequest(s, u, car))
          /\ UNCHANGED <<loopVars, storeVars, sdkVars>>
    \/ (\E s \in BurstSlots, r \in {"ok", "APIError"} : CreateProceeds(s, r))
          /\ UNCHANGED <<loopVars, storeVars, sdkVars>>
    \/ (\E u \in Users, car \in Cars : StopRequest(u, car))
          /\ UNCHANGED <<loopVars, storeVars, sdkVars>>
    \/ (\E u \in Users, k \in 1 .. MaxTasks : RunStarts(u, k))
          /\ UNCHANGED <<loopVars, storeVars, sdkVars>>
    \/ (\E u \in Users, k \in 1 .. MaxTasks, how \in {"next", "break"} :
            RunPassEnds(u, k, how)) /\ UNCHANGED <<loopVars, storeVars, sdkVars>>

SpecCreate == InitCreate /\ [][NextCreate]_vars

\* the requests of the burst answered with this HTTP status
AnsweredWith(code) ==
    {s \in BurstSlots : creates[s].pc = "answered" /\ creates[s].response = code}

\* every request of the burst has been answered and the account of each was
\* resolved
BurstOver ==
    /\ \A s \in BurstSlots : creates[s].pc \in {"idle", "answered"}
    /\ AnsweredWith(200) \cup AnsweredWith(400) # {}
    /\ AnsweredWith(500) = {}

\* C36, as stated: concurrent create requests for one account and car end
\* with exactly one task appended; one request succeeds and every other one
\* is answered with the conflict error
C36_ExactlyOneAppended ==
    BurstOver => (Cardinality(AnsweredWith(200)) = 1 /\ TotalTasks = 1)

\* C36, amended: at no time does an account's list hold two pending or
\* running tasks for one car; a request appends only when every task of the
\* list for the car has ended; and when the burst is over at least one
\* request has succeeded and as many tasks were appended as requests succeeded
C36_OneActiveAtATime ==
    /\ [](\A u \in Users, car \in Cars :
            Cardinality({k \in DOMAIN task_manager[u] :
                            /\ task_manager[u][k].car_number = car
                            /\ task_manager[u][k].status \in {"pending", "running"}}) <= 1)
    /\ [](BurstOver => (AnsweredWith(200) # {}
                          /\ TotalTasks = Cardinality(AnsweredWith(200))))
    /\ [][\A u \in Users :
            Len(task_manager'[u]) > Len(task_manager[u]) =>
                \A k \in DOMAIN task_manager[u] :
                    task_manager[u][k].car_number
                        = task_manager'[u][Len(task_manager'[u])].car_number
                    => task_manager[u][k].status \in FinalStatuses]_vars

\* three requests were in flight at once; one was answered 200 and two with
\* the conflict error, one task is in the list
C36_Witness ==
    /\ BurstOver
    /\ Cardinality(AnsweredWith(200)) = 1
    /\ Cardinality(AnsweredWith(400)) = 2
    /\ TotalTasks = 1

-----------------------------------------------------------------------------
(* The action frame and the authentication of the connection *)

\* C32: the unlock or lock frame goes out once the fixed delay after
\* connect() is over, whether or not the server has finished authenticating
\* the connection: a call on an open connection sends its frame and returns,
\* and no step of the client reads or changes what the server has done
C32_SendsWithoutAcknowledgment ==
    [][/\ (ws_call' # ws_call /\ ws_call'.op \in {"unlock_car", "temporary_lock_car"}
             /\ websocket = "OPEN") =>
             /\ ws_call'.outcome = "return"
             /\ Len(frames') = Len(frames) + 1
             /\ U32(frames'[Len(frames')], 5) \in {3002, 3003}
             /\ server_auth' = server_auth
       /\ (server_auth' # server_auth /\ websocket' = websocket) =>
             (frames' # frames \/ ws_call' = ws_call)]_vars

\* the delay is over, the unlock frame has been sent on the open connection,
\* and the server has not finished the authentication of that connection
C32_Witness ==
    /\ websocket = "OPEN"
    /\ slept = SleepTicks
    /\ ws_call.op = "unlock_car"
    /\ ws_call.outcome = "return"
    /\ Len(frames) = conn_start + 2
    /\ U32(frames[Len(frames)], 5) = 3002
    /\ server_auth = "received"

====
